---- MODULE Spec2Model ----
(***************************************************************************)
(* A model of src/os/pl-cstack.c of SWI-Prolog: the store of the           *)
(* SAVE_TRACES most recent labeled C-stack traces (one per thread, kept in *)
(* LD->btrace_store), its slot reservation next_btrace_id(), the query     *)
(* functions print_backtrace(), print_backtrace_named() and                *)
(* print_c_backtrace(), the debug predicate c_backtrace_clear/0 and the    *)
(* fatal-signal handler sigCrashHandler() (Windows: crashHandler()).       *)
(*                                                                         *)
(* The file is compiled in one of three stack-walking variants, chosen by  *)
(* the preprocessor: "libunwind" (lines 60-229), "glibc" (execinfo, lines  *)
(* 236-496) and "windows" (dbghelp, lines 533-886).  The variant and the   *)
(* other build flags are variables that Init chooses and nothing changes.  *)
(*                                                                         *)
(* The specifications share the variables:                                 *)
(*   Spec         the public operations, called one after the other;       *)
(*   SpecReserve  next_btrace_id() with its loop steps interleaved between *)
(*                callers (signal handlers nesting on one store);          *)
(*   SpecCrash    the crash handler, step by step, with faults raised      *)
(*                while it runs; SpecCrashFair adds the fairness of the    *)
(*                kernel's alarm timer;                                    *)
(*   SpecFallback the build without a stack-walking strategy;              *)
(*   SpecPlain    next_btrace_id() without COMPARE_AND_SWAP, preempted by  *)
(*                signal handlers that reserve on the same store;          *)
(*   SpecPreempt  a capture, statement by statement, preempted by the      *)
(*                capture of a fault handler of the same thread;           *)
(*   SpecTorn     a capture writing a slot, preempted by a signal          *)
(*                handler that renders the slot;                           *)
(*   SpecClear    c_backtrace_clear/0 preempted by a signal handler that   *)
(*                captures or queries;                                     *)
(*   SpecSym      the dbghelp symbol sessions of several Windows threads;  *)
(*   SpecScan     the label scan on every cursor position and labeling.    *)
(***************************************************************************)
EXTENDS Integers, Sequences, FiniteSets, TLC

\* #define SAVE_TRACES 10
SAVE_TRACES == 10

\* the alarm(10) deadline of sigCrashHandler, in seconds
ALARM_SECONDS == 10

\* Bounds of the model.
MaxCaptures == 11
MaxCrashCaptures == 1
MaxPrivateCaptures == 2
MaxStores == 3
MaxReservations == 12
MaxPlainReservations == 4
MaxPreemptCaptures == 3
MaxFrames == 2
NumCallers == 2
MaxNest == 2
NumThreads == 3

NULL == 0
NullName == "<null>"
Labels == {"gc", "crash"}
\* A label that is looked up; "none" is never captured.
LookupLabels == Labels \cup {"none"}
\* What the stack walker yields at the call sites of save_backtrace: the
\* label the site passes and the number of frames found there.
CaptureSites == {[why |-> "gc", depth |-> 2], [why |-> "crash", depth |-> 1]}
\* The frame indexes for which dladdr() fails when a trace is rendered.
DlFailSets == {{}, {0}}

Variants == {"libunwind", "glibc", "windows"}
Posix == {"libunwind", "glibc"}
StoreIds == 1..MaxStores
SlotIds == 0..(SAVE_TRACES - 1)

VARIABLES
  variant,    \* the stack-walking variant compiled in
  cas,        \* COMPARE_AND_SWAP is defined
  haveAlarm,  \* HAVE_ALARM is defined
  haveKill,   \* HAVE_KILL is defined
  hasLD,      \* the calling thread has local data (GET_LD yields non-NULL)
  ldStore,    \* LD->btrace_store: NULL or the id of a store
  heap,       \* the btrace structs: id -> [live, dumps, current, shared]
  hist,       \* ghost: the captures made since the heap last held no store
  out,        \* what the last operation wrote to Sdprintf, line by line
  lastOp,     \* ghost: the last operation, its arguments and what it read
  cleared,    \* ghost: whether the last clear is at most one capture ago
  fault,      \* an operation read or wrote memory it must not
  rpc,        \* per caller, its place in next_btrace_id / save_backtrace
  rcur,       \* per caller, its locals (SpecReserve: `current`)
  resv,       \* ghost: the indexes returned, in order of return
  contended,  \* SpecReserve ghost: some COMPARE_AND_SWAP has failed
  disp,       \* SpecCrash: the disposition of each signal
  hstack,     \* SpecCrash: the handler activations, innermost last
  alarmAt,    \* SpecCrash: 0, or the seconds until SIGALRM is delivered
  proc,       \* SpecCrash: "running", or how the process ended
  tpc,        \* per thread (or activation): the statement it is at
  locks,      \* per lock: 0, or the thread (activation) that holds it
  tw,         \* SpecTorn: the slot being written, field by field
  acc,        \* SpecTorn ghost: what the last rendering read
  sym         \* SpecSym: the threads with a symbol session open

cfgVars == <<variant, cas, haveAlarm, haveKill, hasLD>>
storeVars == <<ldStore, heap, hist, out, lastOp, cleared, fault>>
reserveVars == <<rpc, rcur, resv, contended>>
crashVars == <<disp, hstack, alarmAt, proc>>
syncVars == <<tpc, locks, tw, acc, sym>>
vars == <<cfgVars, storeVars, reserveVars, crashVars, syncVars>>

----------------------------------------------------------------------------
(* The data structures *)

\* btrace_stack (libunwind, windows); retaddr[i], why[i], sizes[i] (glibc).
\* name: the label or NullName; depth: the number of frames recorded;
\* cap: which capture's frames the slot holds (the frames themselves are
\* <<cap, 0>>, <<cap, 1>>, ...); buf: the frame storage exists (always for
\* the inline arrays frame[MAX_DEPTH], the malloc'ed retaddr[i] for glibc).
ZeroSlot(v) == [name |-> NullName, depth |-> 0, cap |-> 0, buf |-> (v # "glibc")]

\* memset(s, 0, sizeof(*s))
ZeroStore(v) ==
  [live |-> TRUE, dumps |-> [i \in SlotIds |-> ZeroSlot(v)], current |-> 0,
   shared |-> FALSE]

\* A cell of the heap that holds no btrace.
FreeCell == [live |-> FALSE, dumps |-> [i \in SlotIds |-> ZeroSlot("libunwind")],
             current |-> 0, shared |-> FALSE]

\* malloc(sizeof(*s)): the lowest free cell, or NULL when the allocation
\* fails (ok = FALSE) or no cell is left.
Malloc(h, ok) ==
  IF ok /\ (\E i \in StoreIds : ~h[i].live)
  THEN CHOOSE i \in StoreIds : ~h[i].live /\ (\A j \in StoreIds : ~h[j].live => i <= j)
  ELSE NULL

\* free(bt) of btrace_destroy(): the glibc variant first frees retaddr[i].
BtraceDestroy(h, bt) == [h EXCEPT ![bt] = FreeCell]

\* get_trace_store(create): yields the heap, LD->btrace_store and the
\* returned pointer.  ok: the outcome of malloc, should it be called.
GetTraceStorePosix(create, ok) ==
  IF hasLD
  THEN IF ldStore = NULL
       THEN LET s == Malloc(heap, ok) IN
            IF s # NULL
            THEN [heap |-> [heap EXCEPT ![s] = [ZeroStore(variant) EXCEPT !.shared = TRUE]],
                  ld |-> s, bt |-> s]
            ELSE [heap |-> heap, ld |-> ldStore, bt |-> ldStore]
       ELSE [heap |-> heap, ld |-> ldStore, bt |-> ldStore]
  ELSE IF create
       THEN LET s == Malloc(heap, ok) IN
            IF s # NULL
            THEN [heap |-> [heap EXCEPT ![s] = ZeroStore(variant)], ld |-> ldStore, bt |-> s]
            ELSE [heap |-> heap, ld |-> ldStore, bt |-> NULL]
       ELSE [heap |-> heap, ld |-> ldStore, bt |-> NULL]

GetTraceStoreWindows(create, ok) ==
  IF ldStore = NULL
  THEN LET s == Malloc(heap, ok) IN
       IF s # NULL
       THEN [heap |-> [heap EXCEPT ![s] = [ZeroStore(variant) EXCEPT !.shared = TRUE]],
             ld |-> s, bt |-> s]
       ELSE [heap |-> heap, ld |-> ldStore, bt |-> ldStore]
  ELSE IF create
       THEN LET s == Malloc(heap, ok) IN
            IF s # NULL
            THEN [heap |-> [heap EXCEPT ![s] = ZeroStore(variant)], ld |-> ldStore, bt |-> s]
            ELSE [heap |-> heap, ld |-> ldStore, bt |-> NULL]
       ELSE [heap |-> heap, ld |-> ldStore, bt |-> ldStore]

GetTraceStore(create, ok) ==
  IF variant = "windows" THEN GetTraceStoreWindows(create, ok)
  ELSE GetTraceStorePosix(create, ok)

----------------------------------------------------------------------------
(* next_btrace_id *)

\* A reservation that forgets to wrap the cursor.
NbiNextNoWrap(current) == current + 1

\* next = current+1; if ( next == SAVE_TRACES ) next = 0;
NbiNext(current) == IF current + 1 = SAVE_TRACES THEN 0 ELSE current + 1

\* current = bt->current++ % SAVE_TRACES;
\* if ( bt->current >= SAVE_TRACES ) bt->current %= SAVE_TRACES;
NbiPlain(c) ==
  [id |-> c % SAVE_TRACES,
   current |-> IF c + 1 >= SAVE_TRACES THEN (c + 1) % SAVE_TRACES ELSE c + 1]

\* A reservation that returns the cursor and leaves it where it was.
NextBtraceIdStuck(c) == [id |-> c, current |-> c]

\* next_btrace_id(bt) run without interruption: the index returned and the
\* cursor left behind.
NextBtraceId(c) ==
  IF cas THEN [id |-> c, current |-> NbiNext(c)] ELSE NbiPlain(c)

----------------------------------------------------------------------------
(* save_backtrace, print_trace, the label scan *)

\* The slot write of save_backtrace / win_save_backtrace.  libunwind and
\* windows fill frame[0..depth-1] in place and set name and depth; glibc
\* sets sizes[id], frees the old retaddr[id], allocates the new one (bufOk:
\* the outcome of that malloc) and sets why[id].
WriteSlot(h, bt, id, why, depth, capNo, bufOk) ==
  [h EXCEPT ![bt].dumps[id] =
     [name |-> why, depth |-> depth, cap |-> capNo,
      buf |-> IF variant = "glibc" THEN bufOk ELSE TRUE]]

\* save_backtrace(why): yields the heap, LD->btrace_store, the store
\* returned (NULL if none) and the slot written (-1 if none).
SaveBacktraceOp(why, depth, capNo, storeOk, bufOk) ==
  LET g == GetTraceStore(TRUE, storeOk) IN
  IF g.bt # NULL
  THEN LET r == NextBtraceId(g.heap[g.bt].current)
           h1 == [g.heap EXCEPT ![g.bt].current = r.current]
       IN [heap |-> WriteSlot(h1, g.bt, r.id, why, depth, capNo, bufOk),
           ld |-> g.ld, bt |-> g.bt, slot |-> r.id]
  ELSE [heap |-> g.heap, ld |-> g.ld, bt |-> NULL, slot |-> -1]

FrameLines(s, skip) ==
  LET RECURSIVE Lines(_)
      Lines(j) ==
        IF j >= s.depth THEN <<>>
        ELSE (IF j \in skip THEN <<>> ELSE << <<"frame", j, s.cap>> >>) \o Lines(j + 1)
  IN Lines(0)

\* print_trace(bt, me): the lines written and whether a NULL retaddr[me]
\* was read.  glibc prints a frame only if dladdr() resolves its address
\* (dlfail: the frame indexes for which it does not); the other variants
\* print every stored frame.
PrintTrace(st, me, dlfail) ==
  LET s == st.dumps[me] IN
  IF s.name # NullName
  THEN IF variant = "glibc"
       THEN IF s.depth > 0 /\ ~s.buf
            THEN [lines |-> << <<"trace", s.name>> >>, fault |-> TRUE]
            ELSE [lines |-> << <<"trace", s.name>> >> \o FrameLines(s, dlfail),
                  fault |-> FALSE]
       ELSE [lines |-> << <<"trace", s.name>> >> \o FrameLines(s, {}), fault |-> FALSE]
  ELSE [lines |-> << <<"No stack trace">> >>, fault |-> FALSE]

\* An index that counts back from the cursor itself, not from the slot
\* before it.
PrintBacktraceSlotFromCursor(current, last) ==
  IF current - last + 1 < 0 THEN current - last + 1 + SAVE_TRACES ELSE current - last + 1

\* The slot print_backtrace(last) renders:
\*   int me = bt->current-last; if ( me < 0 ) me += SAVE_TRACES;
PrintBacktraceSlot(current, last) ==
  IF current - last < 0 THEN current - last + SAVE_TRACES ELSE current - last

\* A scan that does not wrap: me is used as it is.
RECURSIVE ScanLoopNoWrap(_, _, _, _, _)
ScanLoopNoWrap(st, why, me, seen, fuel) ==
  IF me \notin SlotIds THEN [end |-> "oob", seen |-> seen]
  ELSE IF st.dumps[me].name # NullName /\ st.dumps[me].name = why
  THEN [end |-> "found", seen |-> Append(seen, me)]
  ELSE IF me - 1 = st.current - 1 THEN [end |-> "notfound", seen |-> Append(seen, me)]
  ELSE IF fuel = 0 THEN [end |-> "diverged", seen |-> Append(seen, me)]
  ELSE ScanLoopNoWrap(st, why, me - 1, Append(seen, me), fuel - 1)

\* The loop of bstore_print_backtrace_named(): the slots examined, in order,
\* and how the loop ended: "found" at the last slot examined, "notfound" when
\* --me == bt->current-1, "oob" on an index outside the array, "diverged"
\* when the loop has not ended after fuel rounds.
RECURSIVE ScanLoop(_, _, _, _, _)
ScanLoop(st, why, me, seen, fuel) ==
  LET me1 == IF me < 0 THEN me + SAVE_TRACES ELSE me IN
  IF me1 \notin SlotIds THEN [end |-> "oob", seen |-> seen]
  ELSE IF st.dumps[me1].name # NullName /\ st.dumps[me1].name = why
  THEN [end |-> "found", seen |-> Append(seen, me1)]
  ELSE IF me1 - 1 = st.current - 1 THEN [end |-> "notfound", seen |-> Append(seen, me1)]
  ELSE IF fuel = 0 THEN [end |-> "diverged", seen |-> Append(seen, me1)]
  ELSE ScanLoop(st, why, me1 - 1, Append(seen, me1), fuel - 1)

\* A scan that starts at the cursor, the oldest slot, where the loop's end
\* test is met at once.
ScanFromCursor(st, why) == ScanLoop(st, why, st.current, <<>>, 3 * SAVE_TRACES)

\* int me = bt->current-1; for(;;) { ... }
Scan(st, why) == ScanLoop(st, why, st.current - 1, <<>>, 3 * SAVE_TRACES)

\* bstore_print_backtrace_named(bt, why): the lines written, whether it
\* faulted and the slot rendered (-1 if none).  Only the glibc variant
\* prints "No backtrace named <why>" when the scan finds nothing.
NamedOut(h, bt, why, dlfail) ==
  IF bt = NULL THEN [lines |-> <<>>, fault |-> FALSE, me |-> -1]
  ELSE LET sc == Scan(h[bt], why) IN
       IF sc.end = "found"
       THEN LET me == sc.seen[Len(sc.seen)]
                p == PrintTrace(h[bt], me, dlfail)
            IN [lines |-> p.lines, fault |-> p.fault, me |-> me]
       ELSE IF variant = "glibc" /\ sc.end = "notfound"
            THEN [lines |-> << <<"No backtrace named", why>> >>, fault |-> FALSE, me |-> -1]
            ELSE [lines |-> <<>>, fault |-> FALSE, me |-> -1]

----------------------------------------------------------------------------
(* The public operations, each run to completion *)

NoOp == [op |-> "none", why |-> "", last |-> 0, bt |-> NULL, me |-> -1]

\* ghost: how far the calls since the last clear have got: held is the
\* number of captures the destroyed store had taken, saves the captures
\* since; NotCleared once a second capture has followed the clear.
NotCleared == [held |-> -1, saves |-> 0]

AfterCapture(c) ==
  IF c = NotCleared THEN NotCleared
  ELSE IF c.saves = 0 THEN [c EXCEPT !.saves = 1] ELSE NotCleared

\* ghost: a query made before the capture that follows a clear ends the watch.
AfterQuery(c) == IF c.saves = 0 THEN NotCleared ELSE c

\* The captures the model still admits: MaxCaptures in all, of which
\* MaxCrashCaptures are labeled "crash"; MaxPrivateCaptures where captures
\* allocate stores of their own (no LD, and the Windows variant).
MayCapture(site) ==
  /\ Len(hist) < (IF variant \in Posix /\ hasLD THEN MaxCaptures ELSE MaxPrivateCaptures)
  /\ site.why = "crash" =>
       Cardinality({n \in 1..Len(hist) : hist[n].why = "crash"}) < MaxCrashCaptures

\* save_backtrace(why), called by the program.
SaveBacktrace(site, storeOk, bufOk) ==
  /\ ~fault
  /\ MayCapture(site)
  /\ LET r == SaveBacktraceOp(site.why, site.depth, Len(hist) + 1, storeOk, bufOk) IN
     /\ heap' = r.heap
     /\ ldStore' = r.ld
     /\ hist' = IF r.bt # NULL
                THEN Append(hist, [why |-> site.why, depth |-> site.depth,
                                   bt |-> r.bt, slot |-> r.slot])
                ELSE hist
     /\ cleared' = IF r.bt # NULL THEN AfterCapture(cleared) ELSE cleared
     /\ lastOp' = [op |-> "save_backtrace", why |-> site.why, last |-> 0,
                   bt |-> r.bt, me |-> r.slot]
  /\ out' = <<>>
  /\ UNCHANGED <<fault, cfgVars, syncVars, reserveVars, crashVars>>

\* A print_backtrace that reads bt->current without testing bt.
PrintBacktraceNoStoreTest(last, storeOk, dlfail) ==
  /\ ~fault
  /\ LET g == GetTraceStore(FALSE, storeOk) IN
     /\ heap' = g.heap
     /\ ldStore' = g.ld
     /\ IF g.bt # NULL
        THEN LET me == PrintBacktraceSlot(g.heap[g.bt].current, last)
                 p == PrintTrace(g.heap[g.bt], me, dlfail)
             IN /\ out' = p.lines
                /\ fault' = p.fault
                /\ lastOp' = [op |-> "print_backtrace", why |-> "", last |-> last,
                              bt |-> g.bt, me |-> me]
        ELSE /\ out' = <<>>
             /\ fault' = TRUE
             /\ lastOp' = [op |-> "print_backtrace", why |-> "", last |-> last,
                           bt |-> NULL, me |-> -1]
  /\ cleared' = AfterQuery(cleared)
  /\ UNCHANGED <<hist, cfgVars, syncVars, reserveVars, crashVars>>

\* print_backtrace(last), 1 <= last <= SAVE_TRACES.
PrintBacktrace(last, storeOk, dlfail) ==
  /\ ~fault
  /\ LET g == GetTraceStore(FALSE, storeOk) IN
     /\ heap' = g.heap
     /\ ldStore' = g.ld
     /\ IF g.bt # NULL
        THEN LET me == PrintBacktraceSlot(g.heap[g.bt].current, last)
                 p == PrintTrace(g.heap[g.bt], me, dlfail)
             IN /\ out' = p.lines
                /\ fault' = p.fault
                /\ lastOp' = [op |-> "print_backtrace", why |-> "", last |-> last,
                              bt |-> g.bt, me |-> me]
        ELSE /\ out' = << <<"No backtrace store?">> >>
             /\ fault' = FALSE
             /\ lastOp' = [op |-> "print_backtrace", why |-> "", last |-> last,
                           bt |-> NULL, me |-> -1]
  /\ cleared' = AfterQuery(cleared)
  /\ UNCHANGED <<hist, cfgVars, syncVars, reserveVars, crashVars>>

\* print_backtrace_named(why); c_backtrace_print/1 calls it with its
\* argument converted to text.
PrintBacktraceNamed(why, storeOk, dlfail) ==
  /\ ~fault
  /\ LET g == GetTraceStore(FALSE, storeOk)
         p == NamedOut(g.heap, g.bt, why, dlfail)
     IN /\ heap' = g.heap
        /\ ldStore' = g.ld
        /\ out' = p.lines
        /\ fault' = p.fault
        /\ lastOp' = [op |-> "print_backtrace_named", why |-> why, last |-> 0,
                      bt |-> g.bt, me |-> p.me]
  /\ cleared' = AfterQuery(cleared)
  /\ UNCHANGED <<hist, cfgVars, syncVars, reserveVars, crashVars>>

\* A print_c_backtrace that destroys the store whether shared or not.
PrintCBacktraceOpDestroysShared(r, p) ==
  [heap |-> IF r.bt # NULL /\ ~p.fault
            THEN BtraceDestroy(r.heap, r.bt) ELSE r.heap,
   ld |-> r.ld, bt |-> r.bt, slot |-> r.slot, lines |-> p.lines,
   fault |-> p.fault, me |-> p.me]

\* print_c_backtrace(why), given what its save_backtrace(why) returned (r)
\* and what bstore_print_backtrace_named(bt, why) did (p): the store is
\* destroyed if it is not shared with LD.  Yields the heap,
\* LD->btrace_store, the store used, the slot written, the lines written
\* and the fault.
PrintCBacktraceOp(r, p) ==
  [heap |-> IF r.bt # NULL /\ ~r.heap[r.bt].shared /\ ~p.fault
            THEN BtraceDestroy(r.heap, r.bt) ELSE r.heap,
   ld |-> r.ld, bt |-> r.bt, slot |-> r.slot, lines |-> p.lines,
   fault |-> p.fault, me |-> p.me]

PrintCBacktrace(site, storeOk, bufOk, dlfail) ==
  /\ ~fault
  /\ MayCapture(site)
  /\ \E sv \in {SaveBacktraceOp(site.why, site.depth, Len(hist) + 1, storeOk, bufOk)} :
     \E pr \in {NamedOut(sv.heap, sv.bt, site.why, dlfail)} :
     \E r \in {PrintCBacktraceOp(sv, pr)} :
     /\ heap' = r.heap
     /\ ldStore' = r.ld
     /\ hist' = IF r.bt # NULL
                THEN Append(hist, [why |-> site.why, depth |-> site.depth,
                                   bt |-> r.bt, slot |-> r.slot])
                ELSE hist
     /\ cleared' = IF r.bt # NULL THEN AfterCapture(cleared) ELSE cleared
     /\ out' = r.lines
     /\ fault' = r.fault
     /\ lastOp' = [op |-> "print_c_backtrace", why |-> site.why, last |-> 0,
                   bt |-> r.bt, me |-> r.me]
  /\ UNCHANGED <<cfgVars, syncVars, reserveVars, crashVars>>

\* A clear that destroys the store and leaves LD->btrace_store pointing at it.
CBacktraceClearKeepsPointer ==
  /\ ~fault
  /\ hasLD
  /\ ldStore # NULL
  /\ heap' = BtraceDestroy(heap, ldStore)
  /\ cleared' = [held |-> Cardinality({n \in 1..Len(hist) : hist[n].bt = ldStore}),
                 saves |-> 0]
  /\ hist' = <<>>
  /\ out' = <<>>
  /\ lastOp' = [op |-> "c_backtrace_clear", why |-> "", last |-> 0, bt |-> NULL, me |-> -1]
  /\ UNCHANGED <<ldStore, fault, cfgVars, syncVars, reserveVars, crashVars>>

\* c_backtrace_clear/0 (debug builds; a predicate runs in a thread with LD).
CBacktraceClear ==
  /\ ~fault
  /\ hasLD
  /\ IF ldStore # NULL
     THEN /\ heap' = BtraceDestroy(heap, ldStore)
          /\ ldStore' = NULL
          /\ cleared' = [held |-> Cardinality({n \in 1..Len(hist) : hist[n].bt = ldStore}),
                         saves |-> 0]
          /\ hist' = IF \A i \in StoreIds : i # ldStore => ~heap[i].live THEN <<>> ELSE hist
     ELSE UNCHANGED <<heap, ldStore, cleared, hist>>
  /\ out' = <<>>
  /\ lastOp' = [op |-> "c_backtrace_clear", why |-> "", last |-> 0, bt |-> NULL, me |-> -1]
  /\ UNCHANGED <<fault, cfgVars, syncVars, reserveVars, crashVars>>

----------------------------------------------------------------------------
(* Signals and the statements of the crash handlers *)

\* The signals initBackTrace() gives to sigCrashHandler.
Registered == {"SIGSEGV", "SIGILL", "SIGBUS", "SIGFPE", "SIGSYS"}
Signals == Registered \cup {"SIGABRT", "SIGALRM"}
\* The faults that happen in the model: SIGSEGV, which every activation
\* resets, and two of the signals that only their own activation resets.
FaultSignals == {"SIGSEGV", "SIGILL", "SIGFPE"}

\* The number of each signal (Linux), as in 128+sig.
SigNo ==
  [s \in Signals |->
     CASE s = "SIGSEGV" -> 11 [] s = "SIGILL" -> 4 [] s = "SIGBUS" -> 7
       [] s = "SIGFPE" -> 8 [] s = "SIGSYS" -> 31 [] s = "SIGABRT" -> 6
       [] OTHER -> 14]

\* A handler that leaves SIGSEGV with sigCrashHandler.
SigResetSetNoSegv(sig) == {sig, "SIGALRM", "SIGABRT"}

\* A handler that leaves SIGALRM as it finds it.
SigResetSetNoAlarm(sig) == {sig, "SIGABRT", "SIGSEGV"}

\* signal(sig, SIG_DFL); signal(SIGALRM, SIG_DFL); signal(SIGABRT, SIG_DFL);
\* signal(SIGSEGV, SIG_DFL);
SigResetSet(sig) == {sig, "SIGALRM", "SIGABRT", "SIGSEGV"}

\* A handler that runs the exit hooks before it prints the C-stack.
NextPcHooksFirst(pc) ==
  CASE pc = "reset" -> "alarm" [] pc = "alarm" -> "banner" [] pc = "banner" -> "hooks"
    [] pc = "hooks" -> "ctrace" [] pc = "ctrace" -> "plstack" [] pc = "plstack" -> "term"
    [] pc = "term" -> "done" [] pc = "wsave" -> "wprint" [] pc = "wprint" -> "wabort"
    [] OTHER -> "done"

\* The statements of sigCrashHandler (reset .. term) and of the Windows
\* crashHandler (wsave .. wabort), in the order they are written.
NextPc(pc) ==
  CASE pc = "reset" -> "alarm" [] pc = "alarm" -> "banner" [] pc = "banner" -> "ctrace"
    [] pc = "ctrace" -> "plstack" [] pc = "plstack" -> "hooks" [] pc = "hooks" -> "term"
    [] pc = "term" -> "done" [] pc = "wsave" -> "wprint" [] pc = "wprint" -> "wabort"
    [] OTHER -> "done"

\* A handler that aborts whether or not kill() exists.
TermCallAlwaysAbort(hk) == "abort"

\* #ifdef HAVE_KILL ... kill(pid, sig); #else ... abort(); #endif
TermCall(hk) == IF hk THEN "kill" ELSE "abort"

\* The statements that report: they write to the terminal, walk stacks or
\* run hooks, and any of them may block or fault.
Reporting == {"banner", "ctrace", "plstack", "hooks", "wsave", "wprint"}

Running == [st |-> "running", by |-> ""]

----------------------------------------------------------------------------
(* Spec: the public operations called one after the other *)

InitReserveIdle ==
  /\ rpc = [c \in 1..NumCallers |-> "out"]
  /\ rcur = [c \in 1..NumCallers |-> 0]
  /\ resv = <<>>
  /\ contended = FALSE

\* No fault has happened: initBackTrace() has registered sigCrashHandler for
\* its five signals, SIGABRT has its default action, nothing is armed.
InitCrashIdle ==
  /\ disp = [s \in Signals |-> IF s \in Registered THEN "sigCrashHandler" ELSE "SIG_DFL"]
  /\ hstack = <<>>
  /\ alarmAt = 0
  /\ proc = Running

\* The threads of SpecSym; the other specifications use thread 1 for the
\* code that runs normally and thread 2 for a signal handler on top of it.
Threads == 1..NumThreads

\* The lock inside malloc()/free() and the mutex of PL_LOCK(L_CSTACK).
LockNames == {"malloc", "L_CSTACK"}

\* The glibc slot of SpecTorn before anything is written: why[i] == NULL,
\* sizes[i] == 0, retaddr[i] == NULL; alloc is the number of entries of the
\* block retaddr[i] points to, filled the number of them memcpy() has set;
\* frames and new are the frame count and the label of the capture under way.
TwEmpty == [why |-> NullName, sizes |-> 0, ret |-> "null", alloc |-> 0, filled |-> 0,
            frames |-> 0, new |-> NullName]

\* No thread is inside an operation, no lock is held, no session is open.
InitSyncIdle ==
  /\ tpc = [t \in Threads |-> "idle"]
  /\ locks = [l \in LockNames |-> 0]
  /\ tw = TwEmpty
  /\ acc = "none"
  /\ sym = {}

InitStoreEmpty ==
  /\ ldStore = NULL
  /\ heap = [i \in StoreIds |-> FreeCell]
  /\ hist = <<>>
  /\ out = <<>>
  /\ lastOp = NoOp
  /\ cleared = NotCleared
  /\ fault = FALSE

\* The Windows variant dereferences LD without a test (line 577): it runs
\* in threads that have local data.
Init ==
  /\ variant \in Variants
  /\ cas \in BOOLEAN
  /\ haveAlarm = (variant # "windows")
  /\ haveKill = (variant # "windows")
  /\ hasLD \in BOOLEAN
  /\ variant = "windows" => hasLD
  /\ InitStoreEmpty
  /\ InitReserveIdle
  /\ InitCrashIdle
  /\ InitSyncIdle

Next ==
  \/ \E site \in CaptureSites, ok \in BOOLEAN : SaveBacktrace(site, ok, TRUE)
  \/ \E last \in 1..SAVE_TRACES, ok \in BOOLEAN, dl \in DlFailSets :
       PrintBacktrace(last, ok, dl)
  \/ \E why \in LookupLabels, ok \in BOOLEAN, dl \in DlFailSets :
       PrintBacktraceNamed(why, ok, dl)
  \/ \E site \in CaptureSites, ok \in BOOLEAN, dl \in DlFailSets :
       PrintCBacktrace(site, ok, TRUE, dl)
  \/ CBacktraceClear

Spec == Init /\ [][Next]_vars

----------------------------------------------------------------------------
(* Properties of the store, under Spec *)

\* The thread has local data and runs the libunwind or the glibc variant:
\* every capture goes to the store attached to LD.
OneContext == variant \in Posix /\ hasLD

\* The lines print_trace writes for capture n of hist when every frame
\* resolves.
RenderOf(n) ==
  << <<"trace", hist[n].why>> >> \o [j \in 1..hist[n].depth |-> <<"frame", j - 1, n>>]

\* The slots of the store at LD that carry label why.
SlotsNamed(why) == {i \in SlotIds : heap[ldStore].dumps[i].name = why}

\* C2: after N >= 1 captures on one context, print_backtrace(i) with
\* 1 <= i <= min(N, SAVE_TRACES) reads slot (cursor - i) mod SAVE_TRACES,
\* which lies in 0..SAVE_TRACES-1 and is the slot written by the i-th most
\* recent capture, and renders that capture's trace.
C2_PrintBacktraceRecency ==
  (OneContext /\ lastOp.op = "print_backtrace" /\ lastOp.last <= Len(hist)) =>
    LET n == Len(hist) - lastOp.last + 1 IN
    /\ ldStore # NULL /\ lastOp.bt = ldStore
    /\ lastOp.me \in SlotIds
    /\ lastOp.me = (heap[ldStore].current - lastOp.last) % SAVE_TRACES
    /\ lastOp.me = hist[n].slot
    /\ heap[ldStore].dumps[lastOp.me].cap = n
    /\ heap[ldStore].dumps[lastOp.me].name = hist[n].why
    /\ Len(out) >= 1 /\ out[1] = <<"trace", hist[n].why>>
    /\ \A k \in 2..Len(out) : out[k][1] = "frame" /\ out[k][3] = n
    /\ variant = "libunwind" => out = RenderOf(n)

\* C2 witness: the store has wrapped and print_backtrace reads a slot on the
\* far side of the wrap (last exceeds the cursor).
C2_Witness ==
  /\ OneContext /\ lastOp.op = "print_backtrace"
  /\ Len(hist) > SAVE_TRACES
  /\ lastOp.last > heap[ldStore].current
  /\ lastOp.last >= 3
  /\ out[1] = <<"trace", hist[Len(hist) - lastOp.last + 1].why>>

\* C3: after N > SAVE_TRACES captures on one context the store holds exactly
\* the captures N-SAVE_TRACES+1 .. N, each in a slot of its own with its
\* label and depth, and print_backtrace(1) reads the newest.
C3_Ring ==
  (OneContext /\ ldStore # NULL /\ Len(hist) > SAVE_TRACES) =>
    LET st == heap[ldStore]
        N == Len(hist)
    IN /\ {st.dumps[i].cap : i \in SlotIds} = (N - SAVE_TRACES + 1)..N
       /\ \A i, j \in SlotIds : i # j => st.dumps[i].cap # st.dumps[j].cap
       /\ \A i \in SlotIds : /\ st.dumps[i].name = hist[st.dumps[i].cap].why
                             /\ st.dumps[i].depth = hist[st.dumps[i].cap].depth
       /\ st.dumps[PrintBacktraceSlot(st.current, 1)].cap = N
       /\ (lastOp.op = "print_backtrace" /\ lastOp.last = 1) =>
            heap[ldStore].dumps[lastOp.me].cap = N

\* C3 witness: capture SAVE_TRACES+1 has overwritten the oldest trace and
\* print_backtrace(1) has rendered it.
C3_Witness ==
  /\ OneContext /\ Len(hist) = SAVE_TRACES + 1
  /\ lastOp.op = "print_backtrace" /\ lastOp.last = 1
  /\ heap[ldStore].dumps[0].cap = SAVE_TRACES + 1
  /\ out[1] = <<"trace", hist[SAVE_TRACES + 1].why>>

\* C4: print_backtrace_named(L), when some stored trace carries L, renders
\* the one of them captured last; looking L up again in the state it leaves
\* finds the same slot.
C4_NamedMostRecent ==
  (OneContext /\ lastOp.op = "print_backtrace_named" /\ ldStore # NULL
     /\ SlotsNamed(lastOp.why) # {}) =>
    /\ lastOp.bt = ldStore
    /\ lastOp.me \in SlotsNamed(lastOp.why)
    /\ \A i \in SlotsNamed(lastOp.why) :
         heap[ldStore].dumps[i].cap <= heap[ldStore].dumps[lastOp.me].cap
    /\ hist[heap[ldStore].dumps[lastOp.me].cap].why = lastOp.why
    /\ \A n \in 1..Len(hist) :
         (hist[n].why = lastOp.why /\ n > Len(hist) - SAVE_TRACES) =>
           n <= heap[ldStore].dumps[lastOp.me].cap
    /\ Len(out) >= 1 /\ out[1] = <<"trace", lastOp.why>>
    /\ \A k \in 2..Len(out) : out[k][3] = heap[ldStore].dumps[lastOp.me].cap
    /\ NamedOut(heap, ldStore, lastOp.why, {}).me = lastOp.me

\* C4 witness: captures gc, gc, crash, and the lookup of gc has rendered the
\* second capture.
C4_Witness ==
  /\ OneContext /\ lastOp.op = "print_backtrace_named" /\ lastOp.why = "gc"
  /\ Len(hist) = 3
  /\ hist[1].why = "gc" /\ hist[2].why = "gc" /\ hist[3].why = "crash"
  /\ lastOp.me = hist[2].slot
  /\ Len(out) >= 2 /\ out[2][3] = 2

\* C5 (as claimed): in every variant, print_backtrace_named(L) on a store in
\* which no trace carries L writes a not-found message and renders nothing.
C5_NotFoundReported ==
  (lastOp.op = "print_backtrace_named" /\ lastOp.bt # NULL
     /\ \A i \in SlotIds : heap[lastOp.bt].dumps[i].name # lastOp.why) =>
    /\ ~fault
    /\ out = << <<"No backtrace named", lastOp.why>> >>

\* C6: c_backtrace_clear leaves the context without a store; the capture
\* that follows it attaches a store holding that capture alone, in slot 0 with
\* the cursor at 1; print_backtrace(1) then renders it and print_backtrace(i),
\* 2 <= i <= SAVE_TRACES, writes "No stack trace".
C6_ClearThenCapture ==
  /\ lastOp.op = "c_backtrace_clear" => ldStore = NULL
  /\ (hasLD /\ cleared.saves = 1) =>
       /\ ldStore # NULL /\ heap[ldStore].live /\ heap[ldStore].shared
       /\ heap[ldStore].current = 1
       /\ SlotsNamed(hist[Len(hist)].why) = {0}
       /\ \A i \in SlotIds \ {0} : heap[ldStore].dumps[i].name = NullName
       /\ heap[ldStore].dumps[0].cap = Len(hist)
       /\ (lastOp.op \in {"save_backtrace", "print_c_backtrace"} /\ lastOp.bt # NULL) =>
            lastOp.bt = ldStore /\ lastOp.why = heap[ldStore].dumps[0].name
       /\ lastOp.op = "print_backtrace" =>
            IF lastOp.last = 1
            THEN /\ lastOp.me = 0
                 /\ out[1] = <<"trace", hist[Len(hist)].why>>
            ELSE out = << <<"No stack trace">> >>

\* C6 witness: a store that had wrapped was cleared, one capture followed and
\* print_backtrace(SAVE_TRACES) found no trace.
C6_Witness ==
  /\ hasLD /\ cleared.saves = 1 /\ cleared.held > SAVE_TRACES
  /\ lastOp.op = "print_backtrace" /\ lastOp.last = SAVE_TRACES
  /\ out = << <<"No stack trace">> >>

\* C12 (as claimed): in every variant a context uses one store: each capture
\* made in a thread with LD is written into the store at LD->btrace_store,
\* and print_backtrace_named(L) after save_backtrace(L) renders that capture.
C12_OneStorePerContext ==
  (hasLD /\ hist # <<>>) =>
    LET N == Len(hist) IN
    /\ \A n \in 1..N : hist[n].bt = ldStore
    /\ (lastOp.op = "print_backtrace_named" /\ lastOp.why = hist[N].why) =>
         /\ lastOp.bt = hist[N].bt
         /\ lastOp.me = hist[N].slot
         /\ Len(out) >= 1 /\ out[1] = <<"trace", hist[N].why>>
         /\ \A k \in 2..Len(out) : out[k][3] = N

\* C13: without a registered context every capture gets a store of its own,
\* not shared and attached to no context, holding that capture alone;
\* print_c_backtrace renders and then destroys the unshared store it got and
\* leaves a shared one alone, so LD->btrace_store always refers to a live
\* store.
C13_PrivateStores ==
  /\ ldStore # NULL => (hasLD /\ heap[ldStore].live /\ heap[ldStore].shared)
  /\ ~hasLD =>
       /\ ldStore = NULL
       /\ \A i \in StoreIds : heap[i].live =>
            /\ ~heap[i].shared /\ heap[i].current = 1
            /\ heap[i].dumps[0].name # NullName
            /\ \A k \in SlotIds \ {0} : heap[i].dumps[k].name = NullName
            /\ \A j \in StoreIds :
                 (heap[j].live /\ j # i) => heap[j].dumps[0].cap # heap[i].dumps[0].cap
       /\ (lastOp.op = "save_backtrace" /\ lastOp.bt # NULL) =>
            /\ heap[lastOp.bt].live /\ lastOp.me = 0
            /\ heap[lastOp.bt].dumps[0].cap = Len(hist)
  /\ (lastOp.op = "print_c_backtrace" /\ lastOp.bt # NULL /\ ~fault) =>
       /\ Len(out) >= 1 /\ out[1] = <<"trace", lastOp.why>>
       /\ \A k \in 2..Len(out) : out[k][3] = Len(hist)
       /\ IF lastOp.bt = ldStore
          THEN heap[lastOp.bt].live /\ heap[lastOp.bt].shared
          ELSE ~heap[lastOp.bt].live

\* C13 witness: no context; after a save_backtrace whose store is still
\* held, print_c_backtrace rendered its own capture and destroyed its store.
C13_Witness ==
  /\ ~hasLD /\ Len(hist) = 2
  /\ lastOp.op = "print_c_backtrace" /\ lastOp.bt # NULL /\ ~fault
  /\ ~heap[lastOp.bt].live
  /\ heap[hist[1].bt].live /\ hist[1].bt # lastOp.bt
  /\ Len(out) >= 2 /\ out[1] = <<"trace", lastOp.why>> /\ out[2][3] = 2

\* C14: an operation that gets no store (the allocation failed, or there is
\* none to look at) changes nothing: no store appears or changes, no store
\* is attached to the context, no capture is recorded, nothing faults;
\* print_backtrace writes "No backtrace store?" and the others write nothing.
C14_NoStoreNoEffect ==
  [][(lastOp'.bt = NULL /\ lastOp'.op \in {"save_backtrace", "print_c_backtrace",
                                           "print_backtrace", "print_backtrace_named"}) =>
       /\ heap' = heap /\ ldStore' = ldStore /\ hist' = hist
       /\ ~fault' /\ lastOp'.me = -1
       /\ out' = IF lastOp'.op = "print_backtrace"
                 THEN << <<"No backtrace store?">> >> ELSE <<>>]_vars

\* C14 witness: in a thread with LD the allocation failed in
\* print_c_backtrace, which returned without a store and without output.
C14_Witness ==
  /\ hasLD /\ lastOp.op = "print_c_backtrace" /\ lastOp.bt = NULL
  /\ ldStore = NULL /\ hist = <<>> /\ out = <<>> /\ ~fault
  /\ \A i \in StoreIds : ~heap[i].live

\* C21 (as claimed): print_backtrace(n) and print_backtrace_named(L) change
\* neither the store attached to the context nor any store's cursor or
\* slots; a query on a context without a store creates none.
C21_QueriesChangeNothing ==
  [][lastOp'.op \in {"print_backtrace", "print_backtrace_named"} =>
       (heap' = heap /\ ldStore' = ldStore /\ hist' = hist)]_vars

\* C22 (as claimed): in every variant, rendering a slot of depth d writes
\* the banner with the slot's label and then d frame lines, numbered 0..d-1
\* in the order stored; a frame that cannot be resolved is written too.
C22_EveryFrameRendered ==
  (/\ lastOp.op \in {"print_backtrace", "print_backtrace_named", "print_c_backtrace"}
   /\ lastOp.bt # NULL /\ heap[lastOp.bt].live /\ lastOp.me \in SlotIds
   /\ heap[lastOp.bt].dumps[lastOp.me].name # NullName) =>
    LET sl == heap[lastOp.bt].dumps[lastOp.me] IN
    /\ ~fault
    /\ out = << <<"trace", sl.name>> >> \o [j \in 1..sl.depth |-> <<"frame", j - 1, sl.cap>>]

----------------------------------------------------------------------------
(* SpecReserve: next_btrace_id() with COMPARE_AND_SWAP, its steps interleaved *)

Callers == 1..NumCallers

\* The reservations begun: those returned and those in progress.
Begun == Len(resv) + Cardinality({c \in Callers : rpc[c] # "out"})

\* A caller (the thread, or a signal handler that interrupted it) enters
\* next_btrace_id(bt) for the store at LD.
NbiCall(c) ==
  /\ rpc[c] = "out"
  /\ Begun < MaxReservations
  /\ rpc' = [rpc EXCEPT ![c] = "loop"]
  /\ UNCHANGED <<rcur, resv, contended, cfgVars, syncVars, storeVars, crashVars>>

\* current = bt->current; next = current+1; if ( next == SAVE_TRACES ) next = 0;
NbiRead(c) ==
  /\ rpc[c] = "loop"
  /\ rcur' = [rcur EXCEPT ![c] = heap[ldStore].current]
  /\ rpc' = [rpc EXCEPT ![c] = "cas"]
  /\ UNCHANGED <<resv, contended, cfgVars, syncVars, storeVars, crashVars>>

\* while ( !COMPARE_AND_SWAP(&bt->current, current, next) ); return current;
NbiCas(c) ==
  /\ rpc[c] = "cas"
  /\ IF heap[ldStore].current = rcur[c]
     THEN /\ heap' = [heap EXCEPT ![ldStore].current = NbiNext(rcur[c])]
          /\ resv' = Append(resv, [id |-> rcur[c]])
          /\ rpc' = [rpc EXCEPT ![c] = "out"]
          /\ rcur' = [rcur EXCEPT ![c] = 0]
          /\ UNCHANGED contended
     ELSE /\ contended' = TRUE
          /\ rpc' = [rpc EXCEPT ![c] = "loop"]
          /\ UNCHANGED <<heap, resv, rcur>>
  /\ UNCHANGED <<ldStore, hist, out, lastOp, cleared, fault, cfgVars, syncVars, crashVars>>

\* The store of the thread exists and is empty; the build has
\* COMPARE_AND_SWAP.
InitReserve ==
  /\ variant = "libunwind"
  /\ cas = TRUE
  /\ haveAlarm = TRUE
  /\ haveKill = TRUE
  /\ hasLD = TRUE
  /\ ldStore = 1
  /\ heap = [i \in StoreIds |->
               IF i = 1 THEN [ZeroStore("libunwind") EXCEPT !.shared = TRUE] ELSE FreeCell]
  /\ hist = <<>>
  /\ out = <<>>
  /\ lastOp = NoOp
  /\ cleared = NotCleared
  /\ fault = FALSE
  /\ InitReserveIdle
  /\ InitCrashIdle
  /\ InitSyncIdle

NextReserve ==
  \/ \E c \in Callers : NbiCall(c)
  \/ \E c \in Callers : NbiRead(c)
  \/ \E c \in Callers : NbiCas(c)

SpecReserve == InitReserve /\ [][NextReserve]_vars

\* C1: with COMPARE_AND_SWAP, however the calls of next_btrace_id on one
\* store interleave, every index returned lies in 0..SAVE_TRACES-1, any two
\* of fewer than SAVE_TRACES+1 consecutive returns (in the order the swaps
\* succeeded) differ, and any SAVE_TRACES consecutive returns are each index
\* 0..SAVE_TRACES-1 exactly once.
C1_DistinctReservations ==
  /\ \A i \in 1..Len(resv) : resv[i].id \in SlotIds
  /\ \A i, j \in 1..Len(resv) :
       (i < j /\ j - i < SAVE_TRACES) => resv[i].id # resv[j].id
  /\ \A a \in 1..Len(resv) :
       a + SAVE_TRACES - 1 <= Len(resv) =>
         {resv[k].id : k \in a..(a + SAVE_TRACES - 1)} = SlotIds

\* C1 witness: the ring has wrapped (more than SAVE_TRACES reservations have
\* returned), a COMPARE_AND_SWAP has failed on the way, and a caller holds a
\* stale cursor value that its next swap will reject.
C1_Witness ==
  /\ Len(resv) > SAVE_TRACES
  /\ contended
  /\ \E c \in Callers : rpc[c] = "cas" /\ rcur[c] # heap[ldStore].current

----------------------------------------------------------------------------
(* SpecCrash: the crash handlers, statement by statement *)

\* The innermost activation of the handler.
Top == hstack[Len(hstack)]

\* The activation moves to its next statement, having produced events evs.
Advance(evs) ==
  hstack' = [hstack EXCEPT ![Len(hstack)] =
               [Top EXCEPT !.pc = NextPc(Top.pc), !.ev = Top.ev \o evs]]

HandlerOp(name) == [op |-> name, why |-> Top.sig, last |-> 0, bt |-> NULL, me |-> -1]

\* The kernel delivers signal s: the default action of the signals of this
\* model ends the process; sigCrashHandler starts a new activation on top
\* of what was running.
Deliver(s) ==
  IF disp[s] = "SIG_DFL"
  THEN /\ proc' = [st |-> "killed", by |-> s]
       /\ UNCHANGED hstack
  ELSE /\ hstack' = Append(hstack, [sig |-> s, pc |-> "reset", ev |-> <<>>, status |-> 0])
       /\ UNCHANGED proc

\* A fault in normal execution: one of the registered signals arrives.
FatalSignal(s) ==
  /\ variant \in Posix
  /\ proc = Running /\ hstack = <<>>
  /\ Deliver(s)
  /\ lastOp' = [op |-> "fault", why |-> s, last |-> 0, bt |-> NULL, me |-> -1]
  /\ UNCHANGED <<disp, alarmAt, ldStore, heap, hist, out, cleared, fault,
                 cfgVars, syncVars, reserveVars>>

\* Windows: an exception nobody handles reaches the filter crashHandler().
UnhandledException ==
  /\ variant = "windows"
  /\ proc = Running /\ hstack = <<>>
  /\ hstack' = << [sig |-> "EXCEPTION", pc |-> "wsave", ev |-> <<>>, status |-> 0] >>
  /\ lastOp' = [op |-> "fault", why |-> "EXCEPTION", last |-> 0, bt |-> NULL, me |-> -1]
  /\ UNCHANGED <<disp, alarmAt, proc, ldStore, heap, hist, out, cleared, fault,
                 cfgVars, syncVars, reserveVars>>

\* signal(sig, SIG_DFL) and the three resets that follow it.
HReset ==
  /\ proc = Running /\ hstack # <<>> /\ Top.pc = "reset"
  /\ disp' = [s \in Signals |-> IF s \in SigResetSet(Top.sig) THEN "SIG_DFL" ELSE disp[s]]
  /\ Advance(<<"reset">>)
  /\ lastOp' = HandlerOp("reset")
  /\ UNCHANGED <<alarmAt, proc, ldStore, heap, hist, out, cleared, fault,
                 cfgVars, syncVars, reserveVars>>

\* #ifdef HAVE_ALARM alarm(10); #endif
HAlarm ==
  /\ proc = Running /\ hstack # <<>> /\ Top.pc = "alarm"
  /\ IF haveAlarm
     THEN alarmAt' = ALARM_SECONDS /\ Advance(<<"alarm">>)
     ELSE UNCHANGED alarmAt /\ Advance(<<>>)
  /\ lastOp' = HandlerOp("alarm")
  /\ UNCHANGED <<disp, proc, ldStore, heap, hist, out, cleared, fault,
                 cfgVars, syncVars, reserveVars>>

\* SdprintfX("\nSWI-Prolog [thread ...]: received fatal signal %d (%s)\n", ...)
HBanner ==
  /\ proc = Running /\ hstack # <<>> /\ Top.pc = "banner"
  /\ out' = Append(out, <<"received fatal signal", SigNo[Top.sig]>>)
  /\ Advance(<<"banner">>)
  /\ lastOp' = HandlerOp("banner")
  /\ UNCHANGED <<disp, alarmAt, proc, ldStore, heap, hist, cleared, fault,
                 cfgVars, syncVars, reserveVars>>

\* print_c_backtrace("crash").  Reading a NULL retaddr[] raises SIGSEGV.
HCTrace(storeOk, bufOk, dlfail) ==
  /\ proc = Running /\ hstack # <<>> /\ Top.pc = "ctrace"
  /\ \E sv \in {SaveBacktraceOp("crash", 1, Len(hist) + 1, storeOk, bufOk)} :
     \E pr \in {NamedOut(sv.heap, sv.bt, "crash", dlfail)} :
     \E r \in {PrintCBacktraceOp(sv, pr)} :
     /\ heap' = r.heap
     /\ ldStore' = r.ld
     /\ hist' = IF r.bt # NULL
                THEN Append(hist, [why |-> "crash", depth |-> 1, bt |-> r.bt, slot |-> r.slot])
                ELSE hist
     /\ out' = out \o r.lines
     /\ lastOp' = [op |-> "print_c_backtrace", why |-> "crash", last |-> 0,
                   bt |-> r.bt, me |-> r.me]
     /\ IF r.fault
        THEN Deliver("SIGSEGV")
        ELSE /\ Advance((IF r.bt # NULL THEN <<"capture">> ELSE <<>>)
                        \o (IF r.me # -1 THEN <<"render">> ELSE <<>>))
             /\ UNCHANGED proc
  /\ UNCHANGED <<disp, alarmAt, cleared, fault, cfgVars, syncVars, reserveVars>>

\* Sdprintf("Prolog stack:\n"); PL_backtrace(25, PL_BT_SAFE);
HPlStack ==
  /\ proc = Running /\ hstack # <<>> /\ Top.pc = "plstack"
  /\ out' = Append(out, <<"Prolog stack:">>)
  /\ Advance(<<"plstack">>)
  /\ lastOp' = HandlerOp("plstack")
  /\ UNCHANGED <<disp, alarmAt, proc, ldStore, heap, hist, cleared, fault,
                 cfgVars, syncVars, reserveVars>>

\* Sdprintf("Running on_halt hooks with status %d\n", 128+sig);
\* run_on_halt(&GD->os.exit_hooks, 128+sig);
HHooks ==
  /\ proc = Running /\ hstack # <<>> /\ Top.pc = "hooks"
  /\ out' = Append(out, <<"Running on_halt hooks with status", 128 + SigNo[Top.sig]>>)
  /\ hstack' = [hstack EXCEPT ![Len(hstack)] =
                  [Top EXCEPT !.pc = NextPc(Top.pc), !.ev = Append(Top.ev, "hooks"),
                              !.status = 128 + SigNo[Top.sig]]]
  /\ lastOp' = HandlerOp("hooks")
  /\ UNCHANGED <<disp, alarmAt, proc, ldStore, heap, hist, cleared, fault,
                 cfgVars, syncVars, reserveVars>>

\* kill(pid, sig), or abort().  kill() sends sig: under its default action
\* the process ends; were sigCrashHandler still installed for sig, kill()
\* would come back and the handler return to the code it interrupted.
HTerm ==
  /\ proc = Running /\ hstack # <<>> /\ Top.pc = "term"
  /\ IF TermCall(haveKill) = "kill"
     THEN /\ out' = Append(out, <<"Killing with default signal handlers">>)
          /\ Advance(<<"kill">>)
          /\ proc' = IF disp[Top.sig] = "SIG_DFL"
                     THEN [st |-> "killed", by |-> Top.sig]
                     ELSE [st |-> "returned", by |-> Top.sig]
     ELSE /\ out' = Append(out, <<"Aborting">>)
          /\ Advance(<<"abort">>)
          /\ proc' = [st |-> "aborted", by |-> "SIGABRT"]
  /\ lastOp' = HandlerOp("term")
  /\ UNCHANGED <<disp, alarmAt, ldStore, heap, hist, cleared, fault,
                 cfgVars, syncVars, reserveVars>>

\* A signal of the registered set is raised while the innermost activation
\* is at a reporting statement.  MaxNest bounds the activations.
RaiseSignal(s) ==
  /\ variant \in Posix
  /\ proc = Running /\ hstack # <<>> /\ Top.pc \in Reporting
  /\ disp[s] # "SIG_DFL" => Len(hstack) < MaxNest
  /\ Deliver(s)
  /\ lastOp' = [op |-> "raise", why |-> s, last |-> 0, bt |-> NULL, me |-> -1]
  /\ UNCHANGED <<disp, alarmAt, ldStore, heap, hist, out, cleared, fault,
                 cfgVars, syncVars, reserveVars>>

\* The timer set by alarm() runs out and SIGALRM is delivered: the default
\* action ends the process, another handler runs and returns.
AlarmFires ==
  /\ proc = Running /\ alarmAt > 0
  /\ alarmAt' = 0
  /\ proc' = IF disp["SIGALRM"] = "SIG_DFL" THEN [st |-> "killed", by |-> "SIGALRM"] ELSE proc
  /\ lastOp' = [op |-> "alarm", why |-> "SIGALRM", last |-> 0, bt |-> NULL, me |-> -1]
  /\ UNCHANGED <<disp, hstack, ldStore, heap, hist, out, cleared, fault,
                 cfgVars, syncVars, reserveVars>>

\* crashHandler(): win_save_backtrace("crash", pExceptionInfo);
WSave(storeOk) ==
  /\ proc = Running /\ hstack # <<>> /\ Top.pc = "wsave"
  /\ LET r == SaveBacktraceOp("crash", 1, Len(hist) + 1, storeOk, TRUE) IN
     /\ heap' = r.heap
     /\ ldStore' = r.ld
     /\ hist' = IF r.bt # NULL
                THEN Append(hist, [why |-> "crash", depth |-> 1, bt |-> r.bt, slot |-> r.slot])
                ELSE hist
     /\ lastOp' = [op |-> "save_backtrace", why |-> "crash", last |-> 0,
                   bt |-> r.bt, me |-> r.slot]
     /\ Advance(IF r.bt # NULL THEN <<"capture">> ELSE <<>>)
  /\ UNCHANGED <<disp, alarmAt, proc, out, cleared, fault, cfgVars, syncVars, reserveVars>>

\* crashHandler(): print_backtrace_named("crash");
WPrint(storeOk) ==
  /\ proc = Running /\ hstack # <<>> /\ Top.pc = "wprint"
  /\ LET g == GetTraceStore(FALSE, storeOk)
         p == NamedOut(g.heap, g.bt, "crash", {})
     IN /\ heap' = g.heap
        /\ ldStore' = g.ld
        /\ out' = out \o p.lines
        /\ lastOp' = [op |-> "print_backtrace_named", why |-> "crash", last |-> 0,
                      bt |-> g.bt, me |-> p.me]
        /\ Advance(IF p.me # -1 THEN <<"render">> ELSE <<>>)
  /\ UNCHANGED <<disp, alarmAt, proc, hist, cleared, fault, cfgVars, syncVars, reserveVars>>

\* crashHandler(): abort();
WAbort ==
  /\ proc = Running /\ hstack # <<>> /\ Top.pc = "wabort"
  /\ Advance(<<"abort">>)
  /\ proc' = [st |-> "aborted", by |-> "SIGABRT"]
  /\ lastOp' = HandlerOp("term")
  /\ UNCHANGED <<disp, alarmAt, ldStore, heap, hist, out, cleared, fault,
                 cfgVars, syncVars, reserveVars>>

\* The store of a thread that captured one trace labeled "crash" before.
OneCrashStore(v) ==
  [ZeroStore(v) EXCEPT !.shared = TRUE, !.current = 1,
                       !.dumps[0] = [name |-> "crash", depth |-> 2, cap |-> 1, buf |-> TRUE]]

\* The program runs normally.  The Windows C runtime has neither alarm()
\* nor kill(), and its initBackTrace() installs crashHandler as exception
\* filter and registers no signal.  The program may have given SIGALRM a
\* handler of its own ("other").  The thread has an empty store, or one that
\* holds an earlier trace labeled "crash".
InitCrash ==
  /\ variant \in Variants
  /\ cas = TRUE
  /\ haveAlarm \in BOOLEAN
  /\ haveKill \in BOOLEAN
  /\ hasLD \in BOOLEAN
  /\ variant = "windows" => (hasLD /\ ~haveAlarm /\ ~haveKill)
  /\ \E earlier \in BOOLEAN :
       IF earlier /\ hasLD
       THEN /\ ldStore = 1
            /\ heap = [i \in StoreIds |-> IF i = 1 THEN OneCrashStore(variant) ELSE FreeCell]
            /\ hist = << [why |-> "crash", depth |-> 2, bt |-> 1, slot |-> 0] >>
       ELSE /\ ldStore = NULL
            /\ heap = [i \in StoreIds |-> FreeCell]
            /\ hist = <<>>
  /\ out = <<>>
  /\ lastOp = NoOp
  /\ cleared = NotCleared
  /\ fault = FALSE
  /\ InitReserveIdle
  /\ \E al \in {"SIG_DFL", "other"} :
       disp = [s \in Signals |->
                 IF s \in Registered
                 THEN (IF variant \in Posix THEN "sigCrashHandler" ELSE "SIG_DFL")
                 ELSE IF s = "SIGALRM" THEN al ELSE "SIG_DFL"]
  /\ hstack = <<>>
  /\ alarmAt = 0
  /\ proc = Running
  /\ InitSyncIdle

NextCrash ==
  \/ \E s \in FaultSignals : FatalSignal(s)
  \/ UnhandledException
  \/ HReset
  \/ HAlarm
  \/ HBanner
  \/ \E ok \in BOOLEAN, bufOk \in BOOLEAN, dl \in DlFailSets : HCTrace(ok, bufOk, dl)
  \/ HPlStack
  \/ HHooks
  \/ HTerm
  \/ \E s \in FaultSignals : RaiseSignal(s)
  \/ AlarmFires
  \/ \E ok \in BOOLEAN : WSave(ok)
  \/ \E ok \in BOOLEAN : WPrint(ok)
  \/ WAbort

SpecCrash == InitCrash /\ [][NextCrash]_vars

\* The statements that only make system calls come back; the timer of
\* alarm() runs out.  The reporting statements may block for ever.
SpecCrashFair ==
  /\ SpecCrash
  /\ WF_vars(HReset)
  /\ WF_vars(HAlarm)
  /\ WF_vars(AlarmFires)

----------------------------------------------------------------------------
(* Properties of the crash handlers, under SpecCrash and SpecCrashFair *)

\* The activations of sigCrashHandler (not of the Windows crashHandler).
SigFrames == {k \in 1..Len(hstack) : hstack[k].sig \in Registered}

\* The statements in the order the handler is written, and how many of them
\* an activation at pc has completed.
Done(pc) ==
  CASE pc = "reset" -> 0 [] pc = "alarm" -> 1 [] pc = "banner" -> 2 [] pc = "ctrace" -> 3
    [] pc = "plstack" -> 4 [] pc = "hooks" -> 5 [] pc = "term" -> 6 [] OTHER -> 7

\* The events of a run that has completed n statements: armed tells whether
\* the deadline is armed, ctr what print_c_backtrace did, t how the run ends.
EventsAfter(n, armed, ctr, t) ==
  (IF n >= 1 THEN <<"reset">> ELSE <<>>)
  \o (IF n >= 2 /\ armed THEN <<"alarm">> ELSE <<>>)
  \o (IF n >= 3 THEN <<"banner">> ELSE <<>>)
  \o (IF n >= 4 THEN ctr ELSE <<>>)
  \o (IF n >= 5 THEN <<"plstack">> ELSE <<>>)
  \o (IF n >= 6 THEN <<"hooks">> ELSE <<>>)
  \o (IF n >= 7 THEN <<t>> ELSE <<>>)

\* The lines of out at which a line of the given kind stands.
LinesOf(kind) == {i \in 1..Len(out) : out[i][1] = kind}

C8_NeverReentered ==
  /\ Len(hstack) <= 1
  /\ lastOp.op = "raise" => proc = [st |-> "killed", by |-> lastOp.why]

\* C8 (amended): a registered signal raised while sigCrashHandler reports
\* gets the default action if it is SIGSEGV or the signal of an activation
\* already on the stack; any other registered signal still has
\* sigCrashHandler and starts a nested activation.  No signal enters the
\* handler twice, SIGSEGV only as the first, and every activation that is
\* past its resets has left its own signal, SIGSEGV, SIGABRT and SIGALRM at
\* the default action.
C8_ReentryOnlyByUnresetSignal ==
  /\ \A j, k \in SigFrames : j # k => hstack[j].sig # hstack[k].sig
  /\ \A k \in SigFrames : k >= 2 => hstack[k].sig # "SIGSEGV"
  /\ \A k \in SigFrames :
       hstack[k].pc # "reset" =>
         \A s \in {hstack[k].sig, "SIGSEGV", "SIGABRT", "SIGALRM"} : disp[s] = "SIG_DFL"
  /\ lastOp.op = "raise" =>
       IF proc = Running
       THEN /\ Len(hstack) >= 2 /\ Top.sig = lastOp.why /\ Top.pc = "reset"
            /\ lastOp.why \notin {"SIGSEGV"} \cup {hstack[k].sig : k \in 1..(Len(hstack) - 1)}
       ELSE /\ proc = [st |-> "killed", by |-> lastOp.why]
            /\ lastOp.why \in {"SIGSEGV"} \cup {hstack[k].sig : k \in 1..Len(hstack)}

\* C8 witness: SIGFPE, raised while the handler reported SIGILL, entered the
\* handler again; SIGILL, raised while that activation reported, ended the
\* process by its default action.
C8_Witness ==
  /\ Len(hstack) = 2 /\ hstack[1].sig = "SIGILL" /\ hstack[2].sig = "SIGFPE"
  /\ hstack[2].pc \in Reporting
  /\ lastOp.op = "raise" /\ lastOp.why = "SIGILL"
  /\ proc = [st |-> "killed", by |-> "SIGILL"]

\* C9 (as claimed): whenever a crash handler is at a reporting statement the
\* deadline is armed and SIGALRM has its default action.
C9_DeadlineAlwaysArmed ==
  (proc = Running /\ hstack # <<>> /\ Top.pc \in Reporting) =>
    (alarmAt > 0 /\ disp["SIGALRM"] = "SIG_DFL")

\* C9 (amended): in a build with HAVE_ALARM, sigCrashHandler arms the
\* deadline before its first reporting statement, with SIGALRM at its default
\* action, and once it has been entered the process ends, also when a
\* reporting statement blocks for ever.
C9_DeadlineEndsProcess ==
  /\ [](   (haveAlarm /\ proc = Running /\ hstack # <<>> /\ Top.pc \in Reporting \cup {"term"})
        => (alarmAt = ALARM_SECONDS /\ disp["SIGALRM"] = "SIG_DFL"))
  /\ ((haveAlarm /\ hstack # <<>>) ~> (proc.st \in {"killed", "aborted"}))

\* C9 witness: the deadline ended a process whose handler was at (blocked in)
\* the exit hooks.
C9_Witness ==
  /\ haveAlarm /\ hstack # <<>> /\ Top.pc = "hooks"
  /\ proc = [st |-> "killed", by |-> "SIGALRM"]
  /\ alarmAt = 0

\* C10: a run of a crash handler that reaches its last statement ends the
\* process in one way: by sig under its default action, sent with kill(),
\* when the build has HAVE_KILL, and by abort() otherwise, never both; no
\* handler gives control back to the code it interrupted.
C10_OneTerminalState ==
  /\ proc.st \in {"running", "killed", "aborted"}
  /\ \A k \in 1..Len(hstack) :
       LET f == hstack[k]
           kills == {i \in 1..Len(f.ev) : f.ev[i] = "kill"}
           aborts == {i \in 1..Len(f.ev) : f.ev[i] = "abort"}
       IN IF f.pc = "done"
          THEN /\ k = Len(hstack)
               /\ Cardinality(kills) + Cardinality(aborts) = 1
               /\ IF haveKill
                  THEN kills # {} /\ proc = [st |-> "killed", by |-> f.sig]
                  ELSE aborts # {} /\ proc = [st |-> "aborted", by |-> "SIGABRT"]
          ELSE kills = {} /\ aborts = {}
  /\ proc # Running => hstack # <<>>

\* C10 witness: a nested run for SIGFPE reached its last statement and the
\* process ended by SIGFPE sent with kill().
C10_Witness ==
  /\ haveKill /\ Len(hstack) = 2 /\ Top.sig = "SIGFPE" /\ Top.pc = "done"
  /\ proc = [st |-> "killed", by |-> "SIGFPE"]
  /\ out[Len(out)] = <<"Killing with default signal handlers">>

\* C24 (as claimed): in the glibc variant, after every capture, also one
\* whose malloc of the frame buffer fails, a slot with a label and a frame
\* count above 0 has its frame buffer, so no rendering reads through a NULL
\* retaddr[i].
C24_LabeledSlotHasBuffer ==
  variant = "glibc" =>
    /\ \A i \in StoreIds : heap[i].live =>
         \A k \in SlotIds :
           (heap[i].dumps[k].name # NullName /\ heap[i].dumps[k].depth > 0) =>
             heap[i].dumps[k].buf
    /\ ~fault

----------------------------------------------------------------------------
(* SpecFallback: the build in which no stack-walking strategy is compiled   *)
(* (#ifndef BTRACE_DONE)                                                    *)

\* Sdprintf("%s:%d C-stack dumps are not supported on this platform\n", ...)
NotSupported == << <<"C-stack dumps are not supported on this platform">> >>

\* Fallback operations that all keep quiet.
FbOutSilent(op) == <<>>

\* What each fallback operation writes: print_backtrace() and
\* print_backtrace_named() the message, save_backtrace() (return NULL;) and
\* print_c_backtrace() (empty body) nothing.
FbOut(op) ==
  IF op \in {"print_backtrace", "print_backtrace_named"} THEN NotSupported ELSE <<>>

\* A call of one of the four fallback operations; none touches a store.
FbCall(op, why, last) ==
  /\ variant = "none"
  /\ proc = Running /\ hstack = <<>>
  /\ out' = FbOut(op)
  /\ lastOp' = [op |-> op, why |-> why, last |-> last, bt |-> NULL, me |-> -1]
  /\ UNCHANGED <<ldStore, heap, hist, cleared, fault, cfgVars, reserveVars, crashVars,
                 syncVars>>

FbSaveBacktrace(why) == FbCall("save_backtrace", why, 0)
FbPrintBacktrace(last) == FbCall("print_backtrace", "", last)
FbPrintBacktraceNamed(why) == FbCall("print_backtrace_named", why, 0)
FbPrintCBacktrace(why) == FbCall("print_c_backtrace", why, 0)

\* The statements of the fallback sigCrashHandler, in the order written.
FbNextPc(pc) ==
  CASE pc = "reset" -> "banner" [] pc = "banner" -> "hooks" [] pc = "hooks" -> "term"
    [] OTHER -> "done"

\* run_on_halt(&GD->os.exit_hooks, 4);
FbHookStatus(sig) == 4

FbAdvance(evs) ==
  hstack' = [hstack EXCEPT ![Len(hstack)] =
               [Top EXCEPT !.pc = FbNextPc(Top.pc), !.ev = Top.ev \o evs]]

\* A fault in normal execution, for a signal that has sigCrashHandler.
FbFatalSignal(s) ==
  /\ variant = "none"
  /\ proc = Running /\ hstack = <<>>
  /\ Deliver(s)
  /\ lastOp' = [op |-> "fault", why |-> s, last |-> 0, bt |-> NULL, me |-> -1]
  /\ UNCHANGED <<disp, alarmAt, ldStore, heap, hist, out, cleared, fault,
                 cfgVars, reserveVars, syncVars>>

\* signal(sig, SIG_DFL);
FbReset ==
  /\ variant = "none"
  /\ proc = Running /\ hstack # <<>> /\ Top.pc = "reset"
  /\ disp' = [disp EXCEPT ![Top.sig] = "SIG_DFL"]
  /\ FbAdvance(<<"reset">>)
  /\ lastOp' = HandlerOp("reset")
  /\ UNCHANGED <<alarmAt, proc, ldStore, heap, hist, out, cleared, fault,
                 cfgVars, reserveVars, syncVars>>

\* Sdprintf("\nSWI-Prolog [thread ...]: received fatal signal %d (%s)\n", ...)
FbBanner ==
  /\ variant = "none"
  /\ proc = Running /\ hstack # <<>> /\ Top.pc = "banner"
  /\ out' = Append(out, <<"received fatal signal", SigNo[Top.sig]>>)
  /\ FbAdvance(<<"banner">>)
  /\ lastOp' = HandlerOp("banner")
  /\ UNCHANGED <<disp, alarmAt, proc, ldStore, heap, hist, cleared, fault,
                 cfgVars, reserveVars, syncVars>>

\* run_on_halt(&GD->os.exit_hooks, 4);
FbHooks ==
  /\ variant = "none"
  /\ proc = Running /\ hstack # <<>> /\ Top.pc = "hooks"
  /\ hstack' = [hstack EXCEPT ![Len(hstack)] =
                  [Top EXCEPT !.pc = FbNextPc(Top.pc), !.ev = Append(Top.ev, "hooks"),
                              !.status = FbHookStatus(Top.sig)]]
  /\ lastOp' = HandlerOp("hooks")
  /\ UNCHANGED <<disp, alarmAt, proc, ldStore, heap, hist, out, cleared, fault,
                 cfgVars, reserveVars, syncVars>>

\* #if defined(HAVE_KILL) && defined(HAVE_GETPID) kill(getpid(), sig);
\* #else abort(); #endif
FbTerm ==
  /\ variant = "none"
  /\ proc = Running /\ hstack # <<>> /\ Top.pc = "term"
  /\ IF TermCall(haveKill) = "kill"
     THEN /\ FbAdvance(<<"kill">>)
          /\ proc' = IF disp[Top.sig] = "SIG_DFL"
                     THEN [st |-> "killed", by |-> Top.sig]
                     ELSE [st |-> "returned", by |-> Top.sig]
     ELSE /\ FbAdvance(<<"abort">>)
          /\ proc' = [st |-> "aborted", by |-> "SIGABRT"]
  /\ lastOp' = HandlerOp("term")
  /\ UNCHANGED <<disp, alarmAt, ldStore, heap, hist, out, cleared, fault,
                 cfgVars, reserveVars, syncVars>>

\* A signal is raised while the fallback handler writes the banner or runs
\* the hooks.
FbRaiseSignal(s) ==
  /\ variant = "none"
  /\ proc = Running /\ hstack # <<>> /\ Top.pc \in {"banner", "hooks"}
  /\ disp[s] # "SIG_DFL" => Len(hstack) < MaxNest
  /\ Deliver(s)
  /\ lastOp' = [op |-> "raise", why |-> s, last |-> 0, bt |-> NULL, me |-> -1]
  /\ UNCHANGED <<disp, alarmAt, ldStore, heap, hist, out, cleared, fault,
                 cfgVars, reserveVars, syncVars>>

\* The fallback initBackTrace() is empty: the program itself has given
\* sigCrashHandler to the signals that fault in this model.  The build has
\* O_SIGNALS and HAVE_SIGNAL; haveKill stands for HAVE_KILL && HAVE_GETPID.
InitFallback ==
  /\ variant = "none"
  /\ cas = TRUE
  /\ haveAlarm \in BOOLEAN
  /\ haveKill \in BOOLEAN
  /\ hasLD \in BOOLEAN
  /\ InitStoreEmpty
  /\ InitReserveIdle
  /\ disp = [s \in Signals |-> IF s \in FaultSignals THEN "sigCrashHandler" ELSE "SIG_DFL"]
  /\ hstack = <<>>
  /\ alarmAt = 0
  /\ proc = Running
  /\ InitSyncIdle

NextFallback ==
  \/ \E why \in Labels : FbSaveBacktrace(why)
  \/ \E last \in 1..SAVE_TRACES : FbPrintBacktrace(last)
  \/ \E why \in LookupLabels : FbPrintBacktraceNamed(why)
  \/ \E why \in Labels : FbPrintCBacktrace(why)
  \/ \E s \in FaultSignals : FbFatalSignal(s)
  \/ FbReset
  \/ FbBanner
  \/ FbHooks
  \/ FbTerm
  \/ \E s \in FaultSignals : FbRaiseSignal(s)

SpecFallback == InitFallback /\ [][NextFallback]_vars

\* C11 (as claimed): in every build, each run of the crash handler runs the
\* exit hooks once, with status 128 + sig.
C11_HooksStatusFromSignal ==
  \A k \in 1..Len(hstack) :
    LET f == hstack[k]
        hooks == {i \in 1..Len(f.ev) : f.ev[i] = "hooks"}
    IN /\ Cardinality(hooks) <= 1
       /\ f.pc \in {"term", "done"} => Cardinality(hooks) = 1
       /\ hooks # {} => f.status = 128 + SigNo[f.sig]

\* C15 (as claimed): each of the four fallback operations writes the "not
\* supported" message and yields no data.
C15_EveryOperationReports ==
  lastOp.op \in {"save_backtrace", "print_backtrace", "print_backtrace_named",
                 "print_c_backtrace"} =>
    (out = NotSupported /\ lastOp.bt = NULL)

\* C15 (amended): without a stack-walking strategy print_backtrace and
\* print_backtrace_named write the "not supported" message; save_backtrace
\* yields no store and print_c_backtrace does nothing, both without writing;
\* no operation creates a store or fails.
C15_FallbackOperations ==
  /\ ldStore = NULL /\ hist = <<>> /\ ~fault
  /\ \A i \in StoreIds : ~heap[i].live
  /\ lastOp.op \in {"print_backtrace", "print_backtrace_named"} =>
       (out = NotSupported /\ lastOp.bt = NULL)
  /\ lastOp.op \in {"save_backtrace", "print_c_backtrace"} =>
       (out = <<>> /\ lastOp.bt = NULL)

\* C15 witness: print_backtrace_named("crash") wrote the message.
C15_Witness ==
  /\ variant = "none" /\ lastOp.op = "print_backtrace_named" /\ lastOp.why = "crash"
  /\ out = NotSupported /\ lastOp.bt = NULL

----------------------------------------------------------------------------
(* SpecPlain: next_btrace_id() without COMPARE_AND_SWAP, its loads and      *)
(* stores interleaved with those of the signal handlers that preempt it     *)

\* Caller 1 is the thread; caller c+1 is a signal handler that preempts
\* caller c inside next_btrace_id.  A caller runs only while no handler
\* above it is inside.
PlainOnTop(c) == \A d \in Callers : d > c => rpc[d] = "out"

\* The reservations begun: those returned and those in progress.
PlainBegun == Len(resv) + Cardinality({c \in Callers : rpc[c] # "out"})

\* An index returned as read, without the modulo.
PlainIdRaw(t) == t

\* current = <value read from bt->current> % SAVE_TRACES;
PlainId(t) == t % SAVE_TRACES

\* return current;
PlainReturn(c) ==
  /\ resv' = Append(resv, [id |-> PlainId(rcur[c].t)])
  /\ rpc' = [rpc EXCEPT ![c] = "out"]
  /\ rcur' = [rcur EXCEPT ![c] = [t |-> 0, x |-> 0]]

\* Caller c enters next_btrace_id(bt) for the store at LD.
PlainCall(c) ==
  /\ rpc[c] = "out" /\ PlainOnTop(c)
  /\ c > 1 => rpc[c - 1] # "out"
  /\ PlainBegun < MaxPlainReservations
  /\ rpc' = [rpc EXCEPT ![c] = "read"]
  /\ UNCHANGED <<rcur, resv, contended, cfgVars, syncVars, storeVars, crashVars>>

\* bt->current++: the load.
PlainRead(c) ==
  /\ rpc[c] = "read" /\ PlainOnTop(c)
  /\ rcur' = [rcur EXCEPT ![c].t = heap[ldStore].current]
  /\ rpc' = [rpc EXCEPT ![c] = "incr"]
  /\ UNCHANGED <<resv, contended, cfgVars, syncVars, storeVars, crashVars>>

\* bt->current++: the store.
PlainIncr(c) ==
  /\ rpc[c] = "incr" /\ PlainOnTop(c)
  /\ heap' = [heap EXCEPT ![ldStore].current = rcur[c].t + 1]
  /\ rpc' = [rpc EXCEPT ![c] = "test"]
  /\ UNCHANGED <<rcur, resv, contended, ldStore, hist, out, lastOp, cleared, fault,
                 cfgVars, syncVars, crashVars>>

\* if ( bt->current >= SAVE_TRACES )
PlainTest(c) ==
  /\ rpc[c] = "test" /\ PlainOnTop(c)
  /\ IF heap[ldStore].current >= SAVE_TRACES
     THEN /\ rpc' = [rpc EXCEPT ![c] = "modread"]
          /\ UNCHANGED <<rcur, resv>>
     ELSE PlainReturn(c)
  /\ UNCHANGED <<contended, cfgVars, syncVars, storeVars, crashVars>>

\* bt->current %= SAVE_TRACES: the load.
PlainModRead(c) ==
  /\ rpc[c] = "modread" /\ PlainOnTop(c)
  /\ rcur' = [rcur EXCEPT ![c].x = heap[ldStore].current]
  /\ rpc' = [rpc EXCEPT ![c] = "modwrite"]
  /\ UNCHANGED <<resv, contended, cfgVars, syncVars, storeVars, crashVars>>

\* bt->current %= SAVE_TRACES: the store; return current;
PlainModWrite(c) ==
  /\ rpc[c] = "modwrite" /\ PlainOnTop(c)
  /\ heap' = [heap EXCEPT ![ldStore].current = rcur[c].x % SAVE_TRACES]
  /\ PlainReturn(c)
  /\ UNCHANGED <<contended, ldStore, hist, out, lastOp, cleared, fault,
                 cfgVars, syncVars, crashVars>>

\* The store of the thread exists, its cursor anywhere in the ring; the
\* build has no COMPARE_AND_SWAP.
InitPlain ==
  /\ variant = "libunwind"
  /\ cas = FALSE
  /\ haveAlarm = TRUE
  /\ haveKill = TRUE
  /\ hasLD = TRUE
  /\ ldStore = 1
  /\ \E cur \in SlotIds :
       heap = [i \in StoreIds |->
                 IF i = 1
                 THEN [ZeroStore("libunwind") EXCEPT !.shared = TRUE, !.current = cur]
                 ELSE FreeCell]
  /\ hist = <<>>
  /\ out = <<>>
  /\ lastOp = NoOp
  /\ cleared = NotCleared
  /\ fault = FALSE
  /\ rpc = [c \in Callers |-> "out"]
  /\ rcur = [c \in Callers |-> [t |-> 0, x |-> 0]]
  /\ resv = <<>>
  /\ contended = FALSE
  /\ InitCrashIdle
  /\ InitSyncIdle

NextPlain ==
  \/ \E c \in Callers : PlainCall(c)
  \/ \E c \in Callers : PlainRead(c)
  \/ \E c \in Callers : PlainIncr(c)
  \/ \E c \in Callers : PlainTest(c)
  \/ \E c \in Callers : PlainModRead(c)
  \/ \E c \in Callers : PlainModWrite(c)

SpecPlain == InitPlain /\ [][NextPlain]_vars

\* C16: without COMPARE_AND_SWAP, whatever handlers preempt a reservation
\* between its loads and stores, every index returned lies in
\* 0..SAVE_TRACES-1 and the cursor lies in 0..SAVE_TRACES-1 whenever no
\* reservation is in progress; indices may repeat.
C16_PlainInRange ==
  /\ \A i \in 1..Len(resv) : resv[i].id \in SlotIds
  /\ (\A c \in Callers : rpc[c] = "out") => heap[ldStore].current \in SlotIds
  /\ heap[ldStore].current \in 0..(SAVE_TRACES + NumCallers - 1)

\* C16 witness: a handler preempted the thread between the load and the store
\* of the increment while the cursor was at the end of the ring: both got
\* index SAVE_TRACES-1 and the cursor is back in the ring.
C16_Witness ==
  /\ \A c \in Callers : rpc[c] = "out"
  /\ \E i \in 1..(Len(resv) - 1) :
       resv[i].id = SAVE_TRACES - 1 /\ resv[i + 1].id = SAVE_TRACES - 1
  /\ heap[ldStore].current \in SlotIds

----------------------------------------------------------------------------
(* SpecPreempt: a capture, statement by statement, preempted by the capture *)
(* of a fault handler of the same thread                                    *)

\* The statements of save_backtrace(why) / win_save_backtrace(why, ...).
CaptureProg(v) ==
  CASE v = "libunwind" -> <<"gts", "reserve", "label">>
    [] v = "glibc" -> <<"gts", "reserve", "walk", "free_buf", "malloc_buf", "label">>
    [] OTHER -> <<"gts", "reserve", "lock", "walk", "unlock", "label">>

PreIdle == [prog |-> <<>>, i |-> 0, in |-> FALSE, why |-> "", bt |-> NULL, id |-> -1,
            buf |-> FALSE]

\* The statement caller c is at.
PreKind(c) == rcur[c].prog[rcur[c].i]

\* get_trace_store(TRUE) calls malloc: always in the Windows variant,
\* otherwise when there is no LD or LD has no store yet.
GtsAllocates == variant = "windows" \/ ~hasLD \/ ldStore = NULL

\* The lock the statement caller c is at has to take: the allocator's for a
\* malloc or a free that is called, L_CSTACK for PL_LOCK(L_CSTACK).
PreNeeds(c) ==
  LET k == PreKind(c) IN
  CASE k = "gts" -> IF GtsAllocates THEN "malloc" ELSE "none"
    [] k = "free_buf" ->
         IF heap[rcur[c].bt].dumps[rcur[c].id].buf THEN "malloc" ELSE "none"
    [] k \in {"malloc_buf", "alloc"} -> "malloc"
    [] k = "lock" -> "L_CSTACK"
    [] OTHER -> "none"

\* Caller c has reached a statement that waits for a lock somebody holds.
PreBlocked(c) ==
  /\ rpc[c] = "in" /\ ~rcur[c].in
  /\ PreNeeds(c) # "none" /\ locks[PreNeeds(c)] # 0

\* Control moves to the next statement, or out of the function.
PreAdvance(c, rec) ==
  IF rec.i = Len(rec.prog)
  THEN /\ rpc' = [rpc EXCEPT ![c] = "out"]
       /\ rcur' = [rcur EXCEPT ![c] = PreIdle]
  ELSE /\ rpc' = rpc
       /\ rcur' = [rcur EXCEPT ![c] = [rec EXCEPT !.i = rec.i + 1, !.in = FALSE]]

\* Caller 1, the thread, calls save_backtrace(why); caller c > 1 is the fault
\* handler that preempts caller c-1 at the instruction it is at, and calls
\* save_backtrace("crash") (print_c_backtrace, crashHandler).
PreSaveBacktrace(c, why) ==
  /\ rpc[c] = "out" /\ PlainOnTop(c)
  /\ c > 2 => rpc[c - 1] # "out"
  /\ why = "crash" <=> c > 1
  /\ Len(hist) < MaxPreemptCaptures
  /\ rpc' = [rpc EXCEPT ![c] = "in"]
  /\ rcur' = [rcur EXCEPT ![c] = [PreIdle EXCEPT !.prog = CaptureProg(variant), !.i = 1,
                                                  !.why = why]]
  /\ UNCHANGED <<resv, contended, locks, tpc, tw, acc, sym, cfgVars, storeVars, crashVars>>

\* The thread calls malloc or free in ordinary code.
PreOrdinaryAlloc ==
  /\ rpc[1] = "out" /\ PlainOnTop(1)
  /\ rpc' = [rpc EXCEPT ![1] = "in"]
  /\ rcur' = [rcur EXCEPT ![1] = [PreIdle EXCEPT !.prog = <<"alloc">>, !.i = 1]]
  /\ UNCHANGED <<resv, contended, locks, tpc, tw, acc, sym, cfgVars, storeVars, crashVars>>

\* malloc / free entered: the allocator takes its lock.
PreEnterAllocator(c) ==
  /\ rpc[c] = "in" /\ PlainOnTop(c) /\ ~rcur[c].in
  /\ PreNeeds(c) = "malloc" /\ locks["malloc"] = 0
  /\ locks' = [locks EXCEPT !["malloc"] = c]
  /\ rcur' = [rcur EXCEPT ![c].in = TRUE]
  /\ UNCHANGED <<rpc, resv, contended, tpc, tw, acc, sym, cfgVars, storeVars, crashVars>>

\* malloc / free returns (ok: the outcome of a malloc).  get_trace_store
\* attaches or returns the new store; save_backtrace returns NULL without one.
PreLeaveAllocator(c, ok) ==
  /\ rpc[c] = "in" /\ PlainOnTop(c) /\ rcur[c].in
  /\ locks' = [locks EXCEPT !["malloc"] = 0]
  /\ IF PreKind(c) = "gts"
     THEN \E g \in {GetTraceStore(TRUE, ok)} :
            /\ heap' = g.heap
            /\ ldStore' = g.ld
            /\ IF g.bt = NULL
               THEN /\ rpc' = [rpc EXCEPT ![c] = "out"]
                    /\ rcur' = [rcur EXCEPT ![c] = PreIdle]
               ELSE PreAdvance(c, [rcur[c] EXCEPT !.bt = g.bt])
     ELSE /\ PreAdvance(c, [rcur[c] EXCEPT !.buf = ok])
          /\ UNCHANGED <<heap, ldStore>>
  /\ UNCHANGED <<resv, contended, tpc, tw, acc, sym, hist, out, lastOp, cleared, fault,
                 cfgVars, crashVars>>

\* PL_LOCK(L_CSTACK);
PreLock(c) ==
  /\ rpc[c] = "in" /\ PlainOnTop(c)
  /\ PreKind(c) = "lock" /\ locks["L_CSTACK"] = 0
  /\ locks' = [locks EXCEPT !["L_CSTACK"] = c]
  /\ PreAdvance(c, rcur[c])
  /\ UNCHANGED <<resv, contended, tpc, tw, acc, sym, cfgVars, storeVars, crashVars>>

\* PL_UNLOCK(L_CSTACK);
PreUnlock(c) ==
  /\ rpc[c] = "in" /\ PlainOnTop(c)
  /\ PreKind(c) = "unlock"
  /\ locks' = [locks EXCEPT !["L_CSTACK"] = 0]
  /\ PreAdvance(c, rcur[c])
  /\ UNCHANGED <<resv, contended, tpc, tw, acc, sym, cfgVars, storeVars, crashVars>>

\* A statement that takes no lock: get_trace_store returning the store of
\* LD, next_btrace_id, the stack walk, a free that is not called, and the
\* assignments that complete the slot.
PreStep(c) ==
  /\ rpc[c] = "in" /\ PlainOnTop(c) /\ ~rcur[c].in
  /\ PreKind(c) \notin {"lock", "unlock"} /\ PreNeeds(c) = "none"
  /\ CASE PreKind(c) = "gts" ->
            /\ PreAdvance(c, [rcur[c] EXCEPT !.bt = ldStore])
            /\ UNCHANGED <<heap, hist>>
       [] PreKind(c) = "reserve" ->
            \E r \in {NextBtraceId(heap[rcur[c].bt].current)} :
              /\ heap' = [heap EXCEPT ![rcur[c].bt].current = r.current]
              /\ PreAdvance(c, [rcur[c] EXCEPT !.id = r.id])
              /\ UNCHANGED hist
       [] PreKind(c) = "label" ->
            /\ heap' = WriteSlot(heap, rcur[c].bt, rcur[c].id, rcur[c].why, 1,
                                 Len(hist) + 1, rcur[c].buf)
            /\ hist' = Append(hist, [why |-> rcur[c].why, depth |-> 1,
                                     bt |-> rcur[c].bt, slot |-> rcur[c].id])
            /\ PreAdvance(c, rcur[c])
       [] OTHER ->
            /\ PreAdvance(c, rcur[c])
            /\ UNCHANGED <<heap, hist>>
  /\ UNCHANGED <<resv, contended, locks, tpc, tw, acc, sym, ldStore, out, lastOp,
                 cleared, fault, cfgVars, crashVars>>

\* Any variant, with or without LD (the Windows variant has LD), before the
\* first capture.
InitPreempt ==
  /\ variant \in Variants
  /\ cas = TRUE
  /\ haveAlarm = (variant # "windows")
  /\ haveKill = (variant # "windows")
  /\ hasLD \in BOOLEAN
  /\ variant = "windows" => hasLD
  /\ InitStoreEmpty
  /\ rpc = [c \in Callers |-> "out"]
  /\ rcur = [c \in Callers |-> PreIdle]
  /\ resv = <<>>
  /\ contended = FALSE
  /\ InitCrashIdle
  /\ InitSyncIdle

NextPreempt ==
  \/ \E c \in Callers, why \in Labels : PreSaveBacktrace(c, why)
  \/ PreOrdinaryAlloc
  \/ \E c \in Callers : PreEnterAllocator(c)
  \/ \E c \in Callers, ok \in BOOLEAN : PreLeaveAllocator(c, ok)
  \/ \E c \in Callers : PreLock(c)
  \/ \E c \in Callers : PreUnlock(c)
  \/ \E c \in Callers : PreStep(c)

SpecPreempt == InitPreempt /\ [][NextPreempt]_vars

\* C17 (as claimed): the capture of a fault handler takes no lock and calls
\* neither malloc nor free, so it never waits for something the code it
\* preempted holds.
C17_HandlerNeverWaits ==
  \A c \in Callers : (c > 1 /\ rpc[c] = "in") =>
    /\ ~PreBlocked(c)
    /\ ~rcur[c].in
    /\ \A l \in LockNames : locks[l] # c

----------------------------------------------------------------------------
(* SpecTorn: one slot of a store written by save_backtrace, assignment by   *)
(* assignment, and rendered by a handler that preempts the writer           *)

\* The frame counts the stack walker yields here.
FrameCounts == 1..MaxFrames

\* The assignments of save_backtrace to slot current, in the order written:
\* glibc sets sizes, frees retaddr, assigns the malloc'ed retaddr, copies
\* the frames and sets why; libunwind fills frame[] and sets name, then
\* depth; win_save_backtrace fills frame[] and sets depth, then name.
TornNextPc(v, pc) ==
  CASE v = "glibc" ->
         (CASE pc = "sizes" -> "free" [] pc = "free" -> "malloc" [] pc = "malloc" -> "copy"
            [] pc = "copy" -> "why" [] OTHER -> "idle")
    [] v = "libunwind" ->
         (CASE pc = "fill" -> "why" [] pc = "why" -> "sizes" [] OTHER -> "idle")
    [] OTHER ->
         (CASE pc = "fill" -> "sizes" [] pc = "sizes" -> "why" [] OTHER -> "idle")

\* What the loop of print_trace(bt, me) touches in slot s: nothing when the
\* slot has no label or no frames; otherwise retaddr[me][0..sizes-1], which
\* is a NULL pointer ("null"), a buffer already freed ("freed"), a buffer
\* shorter than sizes ("oob"), a buffer not yet filled ("uninit"), or the
\* frames of the slot ("ok").
RenderAccess(s) ==
  IF s.why = NullName \/ s.sizes = 0 THEN "none"
  ELSE IF s.ret = "null" THEN "null"
  ELSE IF s.ret = "freed" THEN "freed"
  ELSE IF s.sizes > s.alloc THEN "oob"
  ELSE IF s.sizes > s.filled THEN "uninit"
  ELSE "ok"

\* The reads that stay inside storage the slot owns.
SafeAccess == {"none", "ok", "uninit"}

\* save_backtrace(why) has its slot (the one written SAVE_TRACES captures
\* ago, or never) and the walker has found frames frames.
TornBegin(why, frames) ==
  /\ ~fault /\ tpc[1] = "idle"
  /\ tpc' = [tpc EXCEPT ![1] = IF variant = "glibc" THEN "sizes" ELSE "fill"]
  /\ tw' = [tw EXCEPT !.frames = frames, !.new = why]
  /\ acc' = "none"
  /\ UNCHANGED <<locks, sym, cfgVars, storeVars, reserveVars, crashVars>>

\* bt->sizes[current] = frames;   s->depth = depth;
TornSizes ==
  /\ ~fault /\ tpc[1] = "sizes"
  /\ tw' = [tw EXCEPT !.sizes = tw.frames]
  /\ tpc' = [tpc EXCEPT ![1] = TornNextPc(variant, "sizes")]
  /\ UNCHANGED <<acc, locks, sym, cfgVars, storeVars, reserveVars, crashVars>>

\* if ( bt->retaddr[current] ) free(bt->retaddr[current]);
TornFree ==
  /\ ~fault /\ tpc[1] = "free"
  /\ tw' = IF tw.ret = "null" THEN tw ELSE [tw EXCEPT !.ret = "freed"]
  /\ tpc' = [tpc EXCEPT ![1] = TornNextPc(variant, "free")]
  /\ UNCHANGED <<acc, locks, sym, cfgVars, storeVars, reserveVars, crashVars>>

\* bt->retaddr[current] = malloc(sizeof(void*)*frames), which succeeds here.
TornMalloc ==
  /\ ~fault /\ tpc[1] = "malloc"
  /\ tw' = [tw EXCEPT !.ret = "live", !.alloc = tw.frames, !.filled = 0]
  /\ tpc' = [tpc EXCEPT ![1] = TornNextPc(variant, "malloc")]
  /\ UNCHANGED <<acc, locks, sym, cfgVars, storeVars, reserveVars, crashVars>>

\* memcpy(bt->retaddr[current], array, sizeof(void*)*frames);
TornCopy ==
  /\ ~fault /\ tpc[1] = "copy"
  /\ tw' = [tw EXCEPT !.filled = tw.frames]
  /\ tpc' = [tpc EXCEPT ![1] = TornNextPc(variant, "copy")]
  /\ UNCHANGED <<acc, locks, sym, cfgVars, storeVars, reserveVars, crashVars>>

\* The walk of libunwind / backtrace() of Windows writes s->frame[0..depth-1]
\* in place.
TornFill ==
  /\ ~fault /\ tpc[1] = "fill"
  /\ tw' = [tw EXCEPT !.filled = IF tw.frames > tw.filled THEN tw.frames ELSE tw.filled]
  /\ tpc' = [tpc EXCEPT ![1] = TornNextPc(variant, "fill")]
  /\ UNCHANGED <<acc, locks, sym, cfgVars, storeVars, reserveVars, crashVars>>

\* bt->why[current] = why;   s->name = why;
TornWhy ==
  /\ ~fault /\ tpc[1] = "why"
  /\ tw' = [tw EXCEPT !.why = tw.new]
  /\ tpc' = [tpc EXCEPT ![1] = TornNextPc(variant, "why")]
  /\ UNCHANGED <<acc, locks, sym, cfgVars, storeVars, reserveVars, crashVars>>

\* print_trace(bt, me) on the slot, called between captures or by a signal
\* handler that preempts the writer where it is.
TornRender ==
  /\ ~fault
  /\ \E a \in {RenderAccess(tw)} :
       /\ acc' = a
       /\ fault' = (a \notin SafeAccess)
  /\ UNCHANGED <<tpc, tw, locks, sym, ldStore, heap, hist, out, lastOp, cleared,
                 cfgVars, reserveVars, crashVars>>

\* A slot nobody has written: memset(s, 0, sizeof(*s)).  The inline frame
\* arrays of libunwind and Windows hold any depth the walk yields.
InitTorn ==
  /\ variant \in Variants
  /\ cas = TRUE
  /\ haveAlarm = (variant # "windows")
  /\ haveKill = (variant # "windows")
  /\ hasLD = TRUE
  /\ InitStoreEmpty
  /\ InitReserveIdle
  /\ InitCrashIdle
  /\ tpc = [t \in Threads |-> "idle"]
  /\ locks = [l \in LockNames |-> 0]
  /\ tw = IF variant = "glibc" THEN TwEmpty
          ELSE [TwEmpty EXCEPT !.ret = "inline", !.alloc = MaxFrames]
  /\ acc = "none"
  /\ sym = {}

NextTorn ==
  \/ \E why \in Labels, frames \in FrameCounts : TornBegin(why, frames)
  \/ TornSizes
  \/ TornFree
  \/ TornMalloc
  \/ TornCopy
  \/ TornFill
  \/ TornWhy
  \/ TornRender

SpecTorn == InitTorn /\ [][NextTorn]_vars

\* C18 (as claimed): a render that preempts the writer of the slot it reads,
\* at any step and also when the slot held an older trace, reads only frame
\* storage that is allocated and only indices inside it.
C18_RenderReadsAllocated == acc \in SafeAccess /\ ~fault

----------------------------------------------------------------------------
(* SpecClear: c_backtrace_clear/0 statement by statement, with a handler    *)
(* of the same thread that captures and prints where it preempts            *)

\* save_backtrace(why) called by the thread, outside c_backtrace_clear.
ClearSave(site) ==
  /\ tpc[1] = "idle"
  /\ SaveBacktrace(site, TRUE, TRUE)

\* if ( LD->btrace_store )
ClearTest ==
  /\ ~fault /\ tpc[1] = "idle"
  /\ tpc' = [tpc EXCEPT ![1] = IF ldStore # NULL THEN "destroy" ELSE "idle"]
  /\ out' = <<>>
  /\ lastOp' = [op |-> "c_backtrace_clear", why |-> "", last |-> 0, bt |-> NULL, me |-> -1]
  /\ UNCHANGED <<ldStore, heap, hist, cleared, fault, locks, tw, acc, sym,
                 cfgVars, reserveVars, crashVars>>

\* btrace_destroy(LD->btrace_store);
ClearDestroy ==
  /\ ~fault /\ tpc[1] = "destroy"
  /\ heap' = BtraceDestroy(heap, ldStore)
  /\ tpc' = [tpc EXCEPT ![1] = "null"]
  /\ UNCHANGED <<ldStore, hist, out, lastOp, cleared, fault, locks, tw, acc, sym,
                 cfgVars, reserveVars, crashVars>>

\* LD->btrace_store = NULL; return TRUE;
ClearNull ==
  /\ ~fault /\ tpc[1] = "null"
  /\ ldStore' = NULL
  /\ hist' = <<>>
  /\ tpc' = [tpc EXCEPT ![1] = "idle"]
  /\ UNCHANGED <<heap, out, lastOp, cleared, fault, locks, tw, acc, sym,
                 cfgVars, reserveVars, crashVars>>

\* A handler preempts the thread where it is and calls
\* print_c_backtrace("crash"): get_trace_store returns LD->btrace_store, and
\* next_btrace_id and the slot write go to whatever it points at; a store
\* already destroyed makes that an access to freed memory.
ClearPreempt(dlfail) ==
  /\ ~fault
  /\ IF ldStore # NULL /\ ~heap[ldStore].live
     THEN /\ fault' = TRUE
          /\ out' = <<>>
          /\ lastOp' = [op |-> "print_c_backtrace", why |-> "crash", last |-> 0,
                        bt |-> ldStore, me |-> -1]
          /\ UNCHANGED <<ldStore, heap, hist, cleared, cfgVars, syncVars, reserveVars,
                         crashVars>>
     ELSE PrintCBacktrace([why |-> "crash", depth |-> 1], TRUE, TRUE, dlfail)

\* A thread with local data (a predicate runs in one), libunwind or glibc.
InitClear ==
  /\ variant \in Posix
  /\ cas \in BOOLEAN
  /\ haveAlarm = TRUE
  /\ haveKill = TRUE
  /\ hasLD = TRUE
  /\ InitStoreEmpty
  /\ InitReserveIdle
  /\ InitCrashIdle
  /\ InitSyncIdle

NextClear ==
  \/ \E site \in CaptureSites : ClearSave(site)
  \/ ClearTest
  \/ ClearDestroy
  \/ ClearNull
  \/ \E dl \in DlFailSets : ClearPreempt(dl)

SpecClear == InitClear /\ [][NextClear]_vars

\* C19 (as claimed): wherever a handler preempts c_backtrace_clear, the
\* store LD->btrace_store points to is live or the pointer is NULL, and no
\* destroyed store is accessed.
C19_NoAccessAfterDestroy ==
  /\ ldStore # NULL => heap[ldStore].live
  /\ ~fault

----------------------------------------------------------------------------
(* SpecSym: the Windows variant, threads capturing and rendering at once;   *)
(* sym is the set of threads between SymInitialize and SymCleanup           *)

\* win_save_backtrace(why, ...) entered; the thread has its store and slot.
SymCapture(t) ==
  /\ tpc[t] = "idle"
  /\ tpc' = [tpc EXCEPT ![t] = "lock"]
  /\ UNCHANGED <<locks, sym, tw, acc, cfgVars, storeVars, reserveVars, crashVars>>

\* PL_LOCK(L_CSTACK);
SymLock(t) ==
  /\ tpc[t] = "lock" /\ locks["L_CSTACK"] = 0
  /\ locks' = [locks EXCEPT !["L_CSTACK"] = t]
  /\ tpc' = [tpc EXCEPT ![t] = "cinit"]
  /\ UNCHANGED <<sym, tw, acc, cfgVars, storeVars, reserveVars, crashVars>>

\* backtrace(): rc = SymInitialize(hProcess, NULL, TRUE); if (rc == 0) return 0;
SymCaptureInit(t, rc) ==
  /\ tpc[t] = "cinit"
  /\ IF rc
     THEN /\ sym' = sym \cup {t}
          /\ tpc' = [tpc EXCEPT ![t] = "cwalk"]
     ELSE /\ sym' = sym
          /\ tpc' = [tpc EXCEPT ![t] = "unlock"]
  /\ UNCHANGED <<locks, tw, acc, cfgVars, storeVars, reserveVars, crashVars>>

\* backtrace(): the StackWalk64 loop; SymCleanup(hProcess); return depth;
SymCaptureCleanup(t) ==
  /\ tpc[t] = "cwalk"
  /\ sym' = sym \ {t}
  /\ tpc' = [tpc EXCEPT ![t] = "unlock"]
  /\ UNCHANGED <<locks, tw, acc, cfgVars, storeVars, reserveVars, crashVars>>

\* PL_UNLOCK(L_CSTACK); s->name = why; return bt;
SymUnlock(t) ==
  /\ tpc[t] = "unlock"
  /\ locks' = [locks EXCEPT !["L_CSTACK"] = 0]
  /\ tpc' = [tpc EXCEPT ![t] = "idle"]
  /\ UNCHANGED <<sym, tw, acc, cfgVars, storeVars, reserveVars, crashVars>>

\* print_trace(bt, me) entered for a slot that has a label.
SymPrint(t) ==
  /\ tpc[t] = "idle"
  /\ tpc' = [tpc EXCEPT ![t] = "pinit"]
  /\ UNCHANGED <<locks, sym, tw, acc, cfgVars, storeVars, reserveVars, crashVars>>

\* print_trace: SymInitialize(hProcess, NULL, TRUE);
SymPrintInit(t) ==
  /\ tpc[t] = "pinit"
  /\ sym' = sym \cup {t}
  /\ tpc' = [tpc EXCEPT ![t] = "ploop"]
  /\ UNCHANGED <<locks, tw, acc, cfgVars, storeVars, reserveVars, crashVars>>

\* print_trace: the loop over the frames; SymCleanup(hProcess);
SymPrintCleanup(t) ==
  /\ tpc[t] = "ploop"
  /\ sym' = sym \ {t}
  /\ tpc' = [tpc EXCEPT ![t] = "idle"]
  /\ UNCHANGED <<locks, tw, acc, cfgVars, storeVars, reserveVars, crashVars>>

\* The threads of a Windows process, none inside the module.
InitSym ==
  /\ variant = "windows"
  /\ cas = TRUE
  /\ haveAlarm = FALSE
  /\ haveKill = FALSE
  /\ hasLD = TRUE
  /\ InitStoreEmpty
  /\ InitReserveIdle
  /\ InitCrashIdle
  /\ InitSyncIdle

NextSym ==
  \/ \E t \in Threads : SymCapture(t)
  \/ \E t \in Threads : SymLock(t)
  \/ \E t \in Threads, rc \in BOOLEAN : SymCaptureInit(t, rc)
  \/ \E t \in Threads : SymCaptureCleanup(t)
  \/ \E t \in Threads : SymUnlock(t)
  \/ \E t \in Threads : SymPrint(t)
  \/ \E t \in Threads : SymPrintInit(t)
  \/ \E t \in Threads : SymPrintCleanup(t)

SpecSym == InitSym /\ [][NextSym]_vars

\* C20 (as claimed): every session of the symbol API, opened by a capture or
\* by a rendering, runs inside the L_CSTACK critical section, so at most one
\* thread is between SymInitialize and SymCleanup.
C20_SessionsSerialized ==
  /\ Cardinality(sym) <= 1
  /\ \A t \in sym : locks["L_CSTACK"] = t

----------------------------------------------------------------------------
(* SpecScan: the label scan of bstore_print_backtrace_named() applied to    *)
(* every cursor position and every labeling of the slots                    *)

\* The labelings of the slots: any set of slots labeled "gc", at most one
\* slot labeled "crash" (cr, -1 for none), the others without a label.
SlotNames(gcs, cr) ==
  [k \in SlotIds |-> IF k = cr THEN "crash" ELSE IF k \in gcs THEN "gc" ELSE NullName]

\* print_backtrace_named(why) on the store at LD.
ScanNamed(why) == PrintBacktraceNamed(why, TRUE, {})

\* A thread whose store has its cursor anywhere and its slots labeled in
\* any of these ways; the glibc and the Windows copy of the loop (the
\* libunwind copy is the Windows one word for word).
InitScan ==
  /\ variant \in {"glibc", "windows"}
  /\ cas = TRUE
  /\ haveAlarm = (variant # "windows")
  /\ haveKill = (variant # "windows")
  /\ hasLD = TRUE
  /\ ldStore = 1
  /\ \E cur \in SlotIds, gcs \in SUBSET SlotIds : \E cr \in (SlotIds \ gcs) \cup {-1} :
       heap = [i \in StoreIds |->
                 IF i = 1
                 THEN [live |-> TRUE, shared |-> TRUE, current |-> cur,
                       dumps |-> [k \in SlotIds |->
                                    [ZeroSlot("libunwind") EXCEPT
                                       !.name = SlotNames(gcs, cr)[k]]]]
                 ELSE FreeCell]
  /\ hist = <<>>
  /\ out = <<>>
  /\ lastOp = NoOp
  /\ cleared = NotCleared
  /\ fault = FALSE
  /\ InitReserveIdle
  /\ InitCrashIdle
  /\ InitSyncIdle

NextScan == \E why \in LookupLabels : ScanNamed(why)

SpecScan == InitScan /\ [][NextScan]_vars

\* The slot the scan reaches after i steps back from the cursor.
ScanOrder(current, i) == (current - i) % SAVE_TRACES

\* C23: for every cursor position and labeling, the label scan ends, either
\* at the first slot (going back from cursor-1, wrapping at 0) whose label
\* is the one looked up, or after all SAVE_TRACES slots; it examines the
\* slots cursor-1, cursor-2, ... (mod SAVE_TRACES) in that order, each index
\* inside the array and none twice; print_backtrace_named renders the slot
\* the scan ends at, if any.
C23_ScanOrder ==
  \A why \in LookupLabels :
    LET st == heap[ldStore]
        sc == Scan(st, why)
        n == Len(sc.seen)
    IN /\ sc.end \in {"found", "notfound"}
       /\ n \in 1..SAVE_TRACES
       /\ \A i \in 1..n : sc.seen[i] \in SlotIds /\ sc.seen[i] = ScanOrder(st.current, i)
       /\ \A i, j \in 1..n : i # j => sc.seen[i] # sc.seen[j]
       /\ \A i \in 1..(n - 1) : st.dumps[sc.seen[i]].name # why
       /\ sc.end = "found" => st.dumps[sc.seen[n]].name = why
       /\ sc.end = "notfound" =>
            /\ n = SAVE_TRACES /\ {sc.seen[i] : i \in 1..n} = SlotIds
            /\ \A k \in SlotIds : st.dumps[k].name # why
       /\ (lastOp.op = "print_backtrace_named" /\ lastOp.why = why) =>
            lastOp.me = IF sc.end = "found" THEN sc.seen[n] ELSE -1

\* C23 witness: the cursor is at 3, only slot 3 (the oldest) carries "crash":
\* the scan for "crash" went down from slot 2, wrapped from 0 to 9 and ended
\* at slot 3, the last of the ten, which was rendered.
C23_Witness ==
  /\ lastOp.op = "print_backtrace_named" /\ lastOp.why = "crash" /\ lastOp.me = 3
  /\ heap[ldStore].current = 3
  /\ \A k \in SlotIds : heap[ldStore].dumps[k].name = "crash" <=> k = 3
  /\ Scan(heap[ldStore], "crash").seen = <<2, 1, 0, 9, 8, 7, 6, 5, 4, 3>>
  /\ out = << <<"trace", "crash">> >>

====
